---- MODULE Spec2Model ----
(***************************************************************************)
(* Estoque JIOR BLANC (src/app.py): the SQLite inventory ledger            *)
(* (products, variants, movements, sku_mapping), the SKU codec, and the    *)
(* Streamlit handlers that write to the ledger (manual movement, stock     *)
(* count, PDF write-off batch, variant create / edit / remove, bulk SKU    *)
(* base regeneration, mapping page).                                       *)
(*                                                                         *)
(* Text is modelled as a sequence of one-character strings, so that the    *)
(* codec (strip, upper, title, regular-expression filters) is computed     *)
(* character by character.  The accented letters of the codec's character  *)
(* classes are written "~C" (C with cedilla) and "~c" (its lower case).    *)
(* SQL NULL / Python None is the value NULL.                               *)
(***************************************************************************)
EXTENDS Integers, Sequences, FiniteSets, TLC

NULL == <<"NULL">>

\* ------------------------------------------------------------------------
\* Characters
\* ------------------------------------------------------------------------
UpperLetters ==
    <<"A","B","C","D","E","F","G","H","I","J","K","L","M",
      "N","O","P","Q","R","S","T","U","V","W","X","Y","Z">>

LowerLetters ==
    <<"a","b","c","d","e","f","g","h","i","j","k","l","m",
      "n","o","p","q","r","s","t","u","v","w","x","y","z">>

Digits == {"0","1","2","3","4","5","6","7","8","9"}

AccentUpper == {"~C"}

AccentLower == {"~c"}

Range(f) == {f[i] : i \in DOMAIN f}

UpperSet == Range(UpperLetters) \cup AccentUpper

LowerSet == Range(LowerLetters) \cup AccentLower

IsUpperChar(c) == c \in UpperSet

IsLowerChar(c) == c \in LowerSet

\* the upper-case form of each lower-case letter, and the reverse
ToUpper ==
    [c \in LowerSet |->
        IF c = "~c" THEN "~C"
        ELSE UpperLetters[CHOOSE i \in DOMAIN LowerLetters : LowerLetters[i] = c]]

ToLower ==
    [c \in UpperSet |->
        IF c = "~C" THEN "~c"
        ELSE LowerLetters[CHOOSE i \in DOMAIN UpperLetters : UpperLetters[i] = c]]

\* str.upper() on one character
UpperChar(c) == IF c \in LowerSet THEN ToUpper[c] ELSE c

\* str.lower() on one character
LowerChar(c) == IF c \in UpperSet THEN ToLower[c] ELSE c

\* ------------------------------------------------------------------------
\* Python string methods
\* ------------------------------------------------------------------------
RECURSIVE LStrip(_)
LStrip(s) == IF s # <<>> /\ Head(s) = " " THEN LStrip(Tail(s)) ELSE s

RECURSIVE RStrip(_)
RStrip(s) ==
    IF s # <<>> /\ s[Len(s)] = " " THEN RStrip(SubSeq(s, 1, Len(s) - 1)) ELSE s

\* str.strip()
Strip(s) == RStrip(LStrip(s))

\* str.upper()
Upper(s) == [i \in DOMAIN s |-> UpperChar(s[i])]

\* re.sub(r"[^...]", "", s): keep the characters of the class
RECURSIVE Keep(_, _)
Keep(s, class) ==
    IF s = <<>> THEN <<>>
    ELSE IF Head(s) \in class THEN <<Head(s)>> \o Keep(Tail(s), class)
    ELSE Keep(Tail(s), class)

\* str.replace(" ", "")
RECURSIVE RemoveSpaces(_)
RemoveSpaces(s) ==
    IF s = <<>> THEN <<>>
    ELSE IF Head(s) = " " THEN RemoveSpaces(Tail(s))
    ELSE <<Head(s)>> \o RemoveSpaces(Tail(s))

\* str.title(): a cased character is upper-cased at the start of a run of
\* cased characters and lower-cased inside it
Title(s) ==
    [i \in DOMAIN s |->
        IF i > 1 /\ (IsUpperChar(s[i - 1]) \/ IsLowerChar(s[i - 1]))
        THEN LowerChar(s[i]) ELSE UpperChar(s[i])]

\* x[:n]
Take(s, n) == SubSeq(s, 1, IF Len(s) < n THEN Len(s) ELSE n)

\* ------------------------------------------------------------------------
\* Helpers: SKU
\* ------------------------------------------------------------------------
ColorClass ==
    Range(UpperLetters) \cup Range(LowerLetters) \cup Digits
        \cup AccentUpper \cup AccentLower \cup {" "}

SizeClass == Range(UpperLetters) \cup Range(LowerLetters) \cup Digits

SkuClass == Range(UpperLetters) \cup Digits \cup {"-", "_"} \cup AccentUpper

KeyClass == Range(UpperLetters) \cup Digits

generate_sku(sku_base, color, size) ==
    LET cor_limpa == RemoveSpaces(Title(Strip(Keep(Strip(color), ColorClass))))
        tamanho_limpo == Keep(Upper(Strip(size)), SizeClass)
        sku_base_limpo == RemoveSpaces(Upper(Strip(sku_base)))
    IN  sku_base_limpo \o <<"-">> \o cor_limpa \o <<"-">> \o tamanho_limpo

\* sanitize_sku as it would be if the substitution removed one character
\* only, the first outside the class
RECURSIVE DropFirstOutside(_, _)
DropFirstOutside(s, class) ==
    IF s = <<>> THEN <<>>
    ELSE IF Head(s) \in class THEN <<Head(s)>> \o DropFirstOutside(Tail(s), class)
    ELSE Tail(s)

sanitize_sku_count_1(s) == DropFirstOutside(RemoveSpaces(Upper(Strip(IF s = NULL THEN <<>> ELSE s))), SkuClass)

\* sanitize_sku as it would be with the upper-casing alone: spaces stay
sanitize_sku_upper_only(s) == Upper(IF s = NULL THEN <<>> ELSE s)

sanitize_sku(s) ==
    Keep(RemoveSpaces(Upper(Strip(IF s = NULL THEN <<>> ELSE s))), SkuClass)

normalize_key(s) == Keep(sanitize_sku(s), KeyClass)

\* ------------------------------------------------------------------------
\* Tables.  A row is a record; a table is the set of its rows.
\*   products    [id, category, subtype, sku_base, custo_unitario]
\*   variants    [id, product_id, color, size, sku, custo_unitario]
\*   movements   [id, variant_id, qty, reason, ts]
\*   sku_mapping [id, sku_pdf, sku_estoque]
\* A nullable REAL column holds NoCost (NULL) or <<c>>.
\* ------------------------------------------------------------------------
NoCost == <<>>

SetMax(S) == CHOOSE x \in S : \A y \in S : y <= x

SetMin(S) == CHOOSE x \in S : \A y \in S : x <= y

\* INTEGER PRIMARY KEY without AUTOINCREMENT: one more than the largest rowid
NextRowId(table) == IF table = {} THEN 1 ELSE SetMax({r.id : r \in table}) + 1

\* cur.fetchone() of a SELECT without ORDER BY: the row of lowest rowid
FirstRow(rows) == CHOOSE r \in rows : r.id = SetMin({x.id : x \in rows})

\* Python truthiness of an Optional[str]
Truthy(s) == s # NULL /\ s # <<>>

\* stock_view: COALESCE(SUM(m.qty), 0) over the movements of the variant
RECURSIVE SumQty(_)
SumQty(ms) ==
    IF ms = {} THEN 0
    ELSE LET m == CHOOSE x \in ms : TRUE IN m.qty + SumQty(ms \ {m})

stock_view(movs, variant_id) == SumQty({m \in movs : m.variant_id = variant_id})

\* ------------------------------------------------------------------------
\* CRUD operations.  Each takes the tables it reads and returns the tables
\* as committed, with the outcome.
\* ------------------------------------------------------------------------
\* the lookup as it would be on the texts as typed, while the INSERT stores
\* them stripped
ProductLookup_as_typed(prods, category, subtype) ==
    {p \in prods : p.category = category /\ p.subtype = subtype}

ProductLookup(prods, category, subtype) ==
    {p \in prods : p.category = Strip(category) /\ p.subtype = Strip(subtype)}

\* get_or_create_product as it would be if an omitted cost were written as
\* 0.0 on an existing product too
get_or_create_product_cost_reset(prods, category, subtype, sku_base, custo_unitario) ==
    LET found == ProductLookup(prods, category, subtype)
        cost == IF custo_unitario # NoCost THEN custo_unitario ELSE <<0>>
    IN  IF found # {}
        THEN LET row == FirstRow(found)
                 upd == [row EXCEPT
                     !.sku_base = IF sku_base # NULL
                                  THEN (IF Truthy(sku_base) THEN Strip(sku_base) ELSE NULL)
                                  ELSE @,
                     !.custo_unitario = cost]
             IN  [products |-> (prods \ {row}) \cup {upd}, id |-> row.id]
        ELSE LET new == [id |-> NextRowId(prods),
                         category |-> Strip(category),
                         subtype |-> Strip(subtype),
                         sku_base |-> IF Truthy(sku_base) THEN Strip(sku_base) ELSE NULL,
                         custo_unitario |-> cost]
             IN  [products |-> prods \cup {new}, id |-> new.id]

get_or_create_product(prods, category, subtype, sku_base, custo_unitario) ==
    LET found == ProductLookup(prods, category, subtype)
    IN  IF found # {}
        THEN LET row == FirstRow(found)
                 upd == [row EXCEPT
                     !.sku_base = IF sku_base # NULL
                                  THEN (IF Truthy(sku_base) THEN Strip(sku_base) ELSE NULL)
                                  ELSE @,
                     !.custo_unitario = IF custo_unitario # NoCost
                                        THEN custo_unitario ELSE @]
             IN  [products |-> (prods \ {row}) \cup {upd}, id |-> row.id]
        ELSE LET new == [id |-> NextRowId(prods),
                         category |-> Strip(category),
                         subtype |-> Strip(subtype),
                         sku_base |-> IF Truthy(sku_base) THEN Strip(sku_base) ELSE NULL,
                         custo_unitario |-> IF custo_unitario # NoCost
                                            THEN custo_unitario ELSE <<0>>]
             IN  [products |-> prods \cup {new}, id |-> new.id]

\* part(x, n) of create_variant
part(x, n) == IF x # <<>> THEN Upper(Take(Strip(x), n)) ELSE <<"X">>

create_variant_sku(prods, product_id, category, subtype, color, size, sku_base, sku_override) ==
    LET stored == (CHOOSE p \in prods : p.id = product_id).sku_base
        base == IF Truthy(sku_base) THEN sku_base
                ELSE IF Truthy(stored) THEN stored ELSE NULL
        sku_auto == IF Truthy(base) THEN generate_sku(base, color, size)
                    ELSE part(category, 4) \o <<"-">> \o part(subtype, 4) \o <<"-">>
                         \o part(color, 3) \o <<"-">> \o part(size, 4)
    IN  sanitize_sku(IF Truthy(sku_override) THEN sku_override ELSE sku_auto)

\* create_variant as it would be without UNIQUE(sku): the INSERT always succeeds
create_variant_no_unique(prods, vars, category, subtype, color, size, sku_base, sku_override, custo_unitario_variante) ==
    LET g == get_or_create_product(prods, category, subtype, sku_base, NoCost)
        sku == create_variant_sku(g.products, g.id, category, subtype, color, size,
                                  sku_base, sku_override)
        row == [id |-> NextRowId(vars), product_id |-> g.id,
                color |-> Strip(color), size |-> Strip(size), sku |-> sku,
                custo_unitario |-> IF custo_unitario_variante # NoCost
                                      /\ custo_unitario_variante # <<0>>
                                   THEN custo_unitario_variante ELSE NoCost]
    IN  [ok |-> TRUE, err |-> "", sku |-> sku,
         products |-> g.products, variants |-> vars \cup {row}]

create_variant(prods, vars, category, subtype, color, size, sku_base, sku_override, custo_unitario_variante) ==
    LET g == get_or_create_product(prods, category, subtype, sku_base, NoCost)
        sku == create_variant_sku(g.products, g.id, category, subtype, color, size,
                                  sku_base, sku_override)
        row == [id |-> NextRowId(vars), product_id |-> g.id,
                color |-> Strip(color), size |-> Strip(size), sku |-> sku,
                custo_unitario |-> IF custo_unitario_variante # NoCost
                                      /\ custo_unitario_variante # <<0>>
                                   THEN custo_unitario_variante ELSE NoCost]
    IN  IF \E v \in vars : v.sku = sku
        THEN [ok |-> FALSE, err |-> "DuplicateSku", sku |-> sku,
              products |-> g.products, variants |-> vars]
        ELSE [ok |-> TRUE, err |-> "", sku |-> sku,
              products |-> g.products, variants |-> vars \cup {row}]

\* record_movement as it would be with INSERT OR REPLACE on the rowid of the
\* newest movement: the row it writes takes the place of that one
record_movement_replace(vars, movs, sku, qty, reason, now) ==
    LET found == {v \in vars : v.sku = sku}
        newest == IF movs = {} THEN 1 ELSE SetMax({m.id : m \in movs})
    IN  IF found = {}
        THEN [ok |-> FALSE, err |-> "UnknownSku", movements |-> movs]
        ELSE [ok |-> TRUE, err |-> "",
              movements |-> {m \in movs : m.id # newest} \cup
                  {[id |-> newest, variant_id |-> FirstRow(found).id,
                    qty |-> qty, reason |-> reason, ts |-> now]}]

\* record_movement as it would be if it looked no variant up: the INSERT is
\* made for an unknown SKU too, with no variant to point at
record_movement_no_lookup(vars, movs, sku, qty, reason, now) ==
    LET found == {v \in vars : v.sku = sku}
    IN  [ok |-> found # {}, err |-> IF found = {} THEN "UnknownSku" ELSE "",
         movements |-> movs \cup
             {[id |-> NextRowId(movs),
               variant_id |-> IF found = {} THEN 0 ELSE FirstRow(found).id,
               qty |-> qty, reason |-> reason, ts |-> now]}]

record_movement(vars, movs, sku, qty, reason, now) ==
    LET found == {v \in vars : v.sku = sku}
    IN  IF found = {}
        THEN [ok |-> FALSE, err |-> "UnknownSku", movements |-> movs]
        ELSE [ok |-> TRUE, err |-> "",
              movements |-> movs \cup
                  {[id |-> NextRowId(movs), variant_id |-> FirstRow(found).id,
                    qty |-> qty, reason |-> reason, ts |-> now]}]

\* FOREIGN KEY sku_mapping.sku_estoque -> variants(sku), no ON UPDATE action:
\* changing the sku of a variant that a mapping row references is refused
FkBlocksSkuChange(maps, old_sku, new_sku) ==
    old_sku # new_sku /\ \E m \in maps : m.sku_estoque = old_sku

\* DELETE FROM products WHERE id=? once no variant references the product
DropIfOrphan(prods, vars, product_id) ==
    IF {v \in vars : v.product_id = product_id} = {}
    THEN {p \in prods : p.id # product_id}
    ELSE prods

\* update_variant as it would be with the product upsert made before the
\* check of the new SKU: a refused update keeps whatever the upsert committed
update_variant_late_check(prods, vars, maps, old_sku, new_sku, category, subtype, color, size, sku_base, custo_unitario_variante) ==
    LET found == {v \in vars : v.sku = old_sku}
        g == get_or_create_product(prods, category, subtype, sku_base, NoCost)
    IN  IF found = {}
        THEN [ok |-> FALSE, err |-> "UnknownSku", products |-> prods, variants |-> vars]
        ELSE IF old_sku # new_sku /\ \E v \in vars : v.sku = new_sku
        THEN [ok |-> FALSE, err |-> "DuplicateSku", products |-> g.products, variants |-> vars]
        ELSE
          LET variant == FirstRow(found)
              upd == [variant EXCEPT !.sku = new_sku, !.color = Strip(color),
                                     !.size = Strip(size), !.product_id = g.id,
                                     !.custo_unitario = custo_unitario_variante]
              vars2 == (vars \ {variant}) \cup {upd}
          IN  IF FkBlocksSkuChange(maps, old_sku, new_sku)
              THEN [ok |-> FALSE, err |-> "StorageError",
                    products |-> g.products, variants |-> vars]
              ELSE [ok |-> TRUE, err |-> "",
                    products |-> DropIfOrphan(g.products, vars2, variant.product_id),
                    variants |-> vars2]

\* update_variant as it would be without the check of the new SKU and
\* without UNIQUE(sku)
update_variant_no_unique(prods, vars, maps, old_sku, new_sku, category, subtype, color, size, sku_base, custo_unitario_variante) ==
    LET found == {v \in vars : v.sku = old_sku}
    IN  IF found = {}
        THEN [ok |-> FALSE, err |-> "UnknownSku", products |-> prods, variants |-> vars]
        ELSE
          LET variant == FirstRow(found)
              g == get_or_create_product(prods, category, subtype, sku_base, NoCost)
              upd == [variant EXCEPT !.sku = new_sku, !.color = Strip(color),
                                     !.size = Strip(size), !.product_id = g.id,
                                     !.custo_unitario = custo_unitario_variante]
              vars2 == (vars \ {variant}) \cup {upd}
          IN  IF FkBlocksSkuChange(maps, old_sku, new_sku)
              THEN [ok |-> FALSE, err |-> "StorageError",
                    products |-> g.products, variants |-> vars]
              ELSE [ok |-> TRUE, err |-> "",
                    products |-> DropIfOrphan(g.products, vars2, variant.product_id),
                    variants |-> vars2]

update_variant(prods, vars, maps, old_sku, new_sku, category, subtype, color, size, sku_base, custo_unitario_variante) ==
    LET found == {v \in vars : v.sku = old_sku}
    IN  IF found = {}
        THEN [ok |-> FALSE, err |-> "UnknownSku", products |-> prods, variants |-> vars]
        ELSE IF old_sku # new_sku /\ \E v \in vars : v.sku = new_sku
        THEN [ok |-> FALSE, err |-> "DuplicateSku", products |-> prods, variants |-> vars]
        ELSE
          LET variant == FirstRow(found)
              g == get_or_create_product(prods, category, subtype, sku_base, NoCost)
              upd == [variant EXCEPT !.sku = new_sku, !.color = Strip(color),
                                     !.size = Strip(size), !.product_id = g.id,
                                     !.custo_unitario = custo_unitario_variante]
              vars2 == (vars \ {variant}) \cup {upd}
          IN  IF FkBlocksSkuChange(maps, old_sku, new_sku)
              THEN [ok |-> FALSE, err |-> "StorageError",
                    products |-> g.products, variants |-> vars]
              ELSE [ok |-> TRUE, err |-> "",
                    products |-> DropIfOrphan(g.products, vars2, variant.product_id),
                    variants |-> vars2]

\* the loop of update_sku_base_bulk over the variants of the product, in rowid
\* order; each UPDATE is checked against UNIQUE(sku) and the foreign key as
\* the table stands at that statement
RECURSIVE RegenerateSkus(_, _, _, _)
RegenerateSkus(vars, maps, todo, new_sku_base) ==
    IF todo = {} THEN [ok |-> TRUE, variants |-> vars]
    ELSE LET vid == SetMin(todo)
             v == CHOOSE x \in vars : x.id = vid
             new_sku == generate_sku(new_sku_base, v.color, v.size)
         IN  IF (\E o \in vars : o.id # vid /\ o.sku = new_sku)
                \/ FkBlocksSkuChange(maps, v.sku, new_sku)
             THEN [ok |-> FALSE, variants |-> vars]
             ELSE RegenerateSkus((vars \ {v}) \cup {[v EXCEPT !.sku = new_sku]},
                                 maps, todo \ {vid}, new_sku_base)

update_sku_base_bulk(prods, vars, maps, category, subtype, new_sku_base) ==
    LET found == {p \in prods : p.category = category /\ p.subtype = subtype}
    IN  IF found = {}
        THEN [ok |-> FALSE, err |-> "ProductNotFound", products |-> prods, variants |-> vars]
        ELSE LET product == FirstRow(found)
                 r == RegenerateSkus(vars, maps,
                          {v.id : v \in {x \in vars : x.product_id = product.id}},
                          new_sku_base)
             IN  IF ~r.ok
                 THEN [ok |-> FALSE, err |-> "StorageError",
                       products |-> prods, variants |-> vars]
                 ELSE [ok |-> TRUE, err |-> "",
                       products |-> (prods \ {product})
                           \cup {[product EXCEPT !.sku_base = new_sku_base]},
                       variants |-> r.variants]

update_custo_unitario(prods, category, subtype, novo_custo) ==
    LET found == {p \in prods : p.category = category /\ p.subtype = subtype}
    IN  IF found = {}
        THEN [ok |-> FALSE, err |-> "ProductNotFound", products |-> prods]
        ELSE LET product == FirstRow(found)
             IN  [ok |-> TRUE, err |-> "",
                  products |-> (prods \ {product})
                      \cup {[product EXCEPT !.custo_unitario = novo_custo]}]

\* delete_variant as it would be on a connection without PRAGMA foreign_keys:
\* the movements of the variant are not removed with it
delete_variant_no_cascade(prods, vars, movs, maps, sku) ==
    LET found == {v \in vars : v.sku = sku}
    IN  IF found = {}
        THEN [ok |-> FALSE, err |-> "UnknownSku", products |-> prods, variants |-> vars,
              movements |-> movs, sku_mapping |-> maps]
        ELSE LET variant == FirstRow(found)
                 vars2 == vars \ {variant}
             IN  [ok |-> TRUE, err |-> "",
                  products |-> DropIfOrphan(prods, vars2, variant.product_id),
                  variants |-> vars2,
                  movements |-> movs,
                  sku_mapping |-> {m \in maps : m.sku_estoque # sku}]

delete_variant(prods, vars, movs, maps, sku) ==
    LET found == {v \in vars : v.sku = sku}
    IN  IF found = {}
        THEN [ok |-> FALSE, err |-> "UnknownSku", products |-> prods, variants |-> vars,
              movements |-> movs, sku_mapping |-> maps]
        ELSE LET variant == FirstRow(found)
                 vars2 == vars \ {variant}
             IN  [ok |-> TRUE, err |-> "",
                  products |-> DropIfOrphan(prods, vars2, variant.product_id),
                  variants |-> vars2,
                  movements |-> {m \in movs : m.variant_id # variant.id},
                  sku_mapping |-> {m \in maps : m.sku_estoque # sku}]

\* the INSERT as it would be without its ON CONFLICT clause: UNIQUE(sku_pdf)
\* refuses a second row for the identifier
upsert_mapping_insert_only(vars, maps, sku_pdf, sku_estoque) ==
    IF (~\E v \in vars : v.sku = sku_estoque) \/ (\E m \in maps : m.sku_pdf = sku_pdf)
    THEN [ok |-> FALSE, sku_mapping |-> maps]
    ELSE [ok |-> TRUE,
          sku_mapping |-> maps \cup {[id |-> NextRowId(maps), sku_pdf |-> sku_pdf,
                                      sku_estoque |-> sku_estoque]}]

\* INSERT INTO sku_mapping ... ON CONFLICT(sku_pdf) DO UPDATE SET sku_estoque
upsert_mapping(vars, maps, sku_pdf, sku_estoque) ==
    IF ~\E v \in vars : v.sku = sku_estoque
    THEN [ok |-> FALSE, sku_mapping |-> maps]
    ELSE IF \E m \in maps : m.sku_pdf = sku_pdf
    THEN [ok |-> TRUE,
          sku_mapping |-> {IF m.sku_pdf = sku_pdf
                           THEN [m EXCEPT !.sku_estoque = sku_estoque] ELSE m : m \in maps}]
    ELSE [ok |-> TRUE,
          sku_mapping |-> maps \cup {[id |-> NextRowId(maps), sku_pdf |-> sku_pdf,
                                      sku_estoque |-> sku_estoque]}]

\* sanitized_to_original_sku_map: {sanitize_sku(s): s for s in orig_list}; for
\* two SKUs with one sanitized form the later of list_variants_df's order wins
VariantOrderKey(prods, v) ==
    LET p == CHOOSE x \in prods : x.id = v.product_id
    IN  <<p.category, p.subtype, v.color, v.size>>

\* code-point order of the characters, for ORDER BY on TEXT columns
CodePointOrder ==
    <<" ", "-", ".">> \o <<"0","1","2","3","4","5","6","7","8","9">>
        \o UpperLetters \o <<"_">> \o LowerLetters \o <<"~C", "~c">>

CharRank(c) == CHOOSE i \in DOMAIN CodePointOrder : CodePointOrder[i] = c

\* a < b for TEXT values (BINARY collation)
RECURSIVE TextLess(_, _)
TextLess(a, b) ==
    IF b = <<>> THEN FALSE
    ELSE IF a = <<>> THEN TRUE
    ELSE IF Head(a) # Head(b) THEN CharRank(Head(a)) < CharRank(Head(b))
    ELSE TextLess(Tail(a), Tail(b))

RECURSIVE KeyLess(_, _)
KeyLess(k1, k2) ==
    IF k1 = <<>> THEN FALSE
    ELSE IF Head(k1) # Head(k2) THEN TextLess(Head(k1), Head(k2))
    ELSE KeyLess(Tail(k1), Tail(k2))

\* list_variants_df: ORDER BY p.category, p.subtype, v.color, v.size (rows
\* that tie come in rowid order)
ListedBefore(prods, a, b) ==
    LET ka == VariantOrderKey(prods, a)
        kb == VariantOrderKey(prods, b)
    IN  KeyLess(ka, kb) \/ (ka = kb /\ a.id < b.id)

sanitized_to_original_sku_map(prods, vars) ==
    [k \in {sanitize_sku(v.sku) : v \in vars} |->
        LET same == {v \in vars : sanitize_sku(v.sku) = k}
        IN  (CHOOSE v \in same : \A o \in same \ {v} : ListedBefore(prods, o, v)).sku]

\* stock_df() as the dict map_estoque {sku: estoque}; the row listed last wins
map_estoque_of(prods, vars, movs) ==
    [k \in {v.sku : v \in vars} |->
        LET same == {v \in vars : v.sku = k}
            v == CHOOSE x \in same : \A o \in same \ {x} : ListedBefore(prods, o, x)
        IN  stock_view(movs, v.id)]

\* int(df_sku.loc[df_sku["sku"] == sku, "estoque"].values[0]): the first listed
\* row of stock_df with that sku
estoque_of_sku(prods, vars, movs, sku) ==
    LET same == {v \in vars : v.sku = sku}
        v == CHOOSE x \in same : \A o \in same \ {x} : ListedBefore(prods, x, o)
    IN  stock_view(movs, v.id)

\* COALESCE(v.custo_unitario, p.custo_unitario, 0) of stock_value_view
custo_efetivo(prods, v) ==
    LET p == CHOOSE x \in prods : x.id = v.product_id
    IN  IF v.custo_unitario # NoCost THEN v.custo_unitario[1]
        ELSE IF p.custo_unitario # NoCost THEN p.custo_unitario[1]
        ELSE 0

\* stock_value_view: one row per variant (GROUP BY v.id, v.sku); the row keeps
\* the id of its variant, which tells apart rows that are otherwise equal
stock_value_view(prods, vars, movs) ==
    {[variant_id |-> v.id, sku |-> v.sku,
      estoque |-> stock_view(movs, v.id),
      custo_unitario |-> custo_efetivo(prods, v),
      valor_estoque |-> stock_view(movs, v.id) * custo_efetivo(prods, v)] : v \in vars}

\* the rows as they would be without WHERE estoque > 0
stock_value_all_rows(prods, vars, movs) == stock_value_view(prods, vars, movs)

\* stock_value_positive_df: ... FROM stock_value_view WHERE estoque > 0
stock_value_positive_df(prods, vars, movs) ==
    {r \in stock_value_view(prods, vars, movs) : r.estoque > 0}

\* df['valor_estoque'].sum()
RECURSIVE SumValorEstoque(_)
SumValorEstoque(rows) ==
    IF rows = {} THEN 0
    ELSE LET r == CHOOSE x \in rows : TRUE
         IN  r.valor_estoque + SumValorEstoque(rows \ {r})

\* page "Valor do Estoque": valor_total
valor_total(prods, vars, movs) ==
    SumValorEstoque(stock_value_positive_df(prods, vars, movs))

\* get_sku_mapping as it would be with the index of normalized ledger SKUs
\* consulted before the persisted entries
get_sku_mapping_index_first(prods, vars, maps, sku_pdf_norm) ==
    LET key_pdf == sanitize_sku(sku_pdf_norm)
        hits == {m \in maps : sanitize_sku(m.sku_pdf) = key_pdf}
        same == {v \in vars : normalize_key(v.sku) = normalize_key(key_pdf)}
    IN  IF same # {}
        THEN (CHOOSE v \in same : \A o \in same \ {v} : ListedBefore(prods, o, v)).sku
        ELSE IF hits # {}
        THEN (CHOOSE m \in hits : \A o \in hits : o.id <= m.id).sku_estoque
        ELSE NULL

\* get_sku_mapping: map1 = {sanitize_sku(k): v for (k, v) in rows}, then
\* norm_index = {normalize_key(sku): sku for sku in list_variants_df()}; in
\* both dicts the row that comes last wins; None is NULL
get_sku_mapping(prods, vars, maps, sku_pdf_norm) ==
    LET key_pdf == sanitize_sku(sku_pdf_norm)
        hits == {m \in maps : sanitize_sku(m.sku_pdf) = key_pdf}
        same == {v \in vars : normalize_key(v.sku) = normalize_key(key_pdf)}
    IN  IF hits # {}
        THEN (CHOOSE m \in hits : \A o \in hits : o.id <= m.id).sku_estoque
        ELSE IF same # {}
        THEN (CHOOSE v \in same : \A o \in same \ {v} : ListedBefore(prods, o, v)).sku
        ELSE NULL

\* ------------------------------------------------------------------------
\* processar_pdf_vendas, from the matches of sku_pattern on.  A document is
\* the sequence of its merged lines; a line is given by what the regular
\* expressions find in it: the matches in order, each with token_out and
\* qty_val (NoQty for None), and the quantity read from the text after the
\* last match (tail), NoQty when the tail is no quantity.
\* ------------------------------------------------------------------------
NoQty == <<>>

\* re.sub(r"-{2,}", "-", s)
RECURSIVE CollapseDashes(_)
CollapseDashes(s) ==
    IF Len(s) < 2 THEN s
    ELSE IF s[1] = "-" /\ s[2] = "-" THEN CollapseDashes(Tail(s))
    ELSE <<s[1]>> \o CollapseDashes(Tail(s))

\* norm of processar_pdf_vendas
norm(s) == CollapseDashes(RemoveSpaces(Upper(s)))

\* the test as it would be with vistos never consulted
key_in_vistos_never(vistos, key) == FALSE

\* key in vistos
key_in_vistos(vistos, key) == key \in vistos

\* the three places that append a fact: key = (sku_n, q), if key not in
\* vistos: vistos.add(key), mapped = get_sku_mapping(sku_n), movimentos.append
append_fact(prods, vars, maps, st, token, q) ==
    LET sku_n == norm(token)
        key == <<sku_n, q>>
        mapped == get_sku_mapping(prods, vars, maps, sku_n)
    IN  IF key_in_vistos(st.vistos, key)
        THEN [st EXCEPT !.pending_sku = NULL]
        ELSE [movimentos |-> Append(st.movimentos,
                                    [sku_pdf |-> sku_n,
                                     sku |-> IF mapped # NULL THEN mapped ELSE sku_n,
                                     quantidade |-> q,
                                     mapeado |-> mapped # NULL]),
              vistos |-> st.vistos \cup {key},
              pending_sku |-> NULL]

\* for m in sku_pattern.finditer(compact)
RECURSIVE scan_matches(_, _, _, _, _)
scan_matches(prods, vars, maps, st, matches) ==
    IF matches = <<>> THEN st
    ELSE LET m == Head(matches)
             st2 == IF m.qty_val # NoQty
                    THEN append_fact(prods, vars, maps, st, m.token_out, m.qty_val[1])
                    ELSE [st EXCEPT !.pending_sku = m.token_out]
         IN  scan_matches(prods, vars, maps, st2, Tail(matches))

\* for ln in merged; pending_sku is kept from one line to the next
RECURSIVE scan_lines(_, _, _, _, _)
scan_lines(prods, vars, maps, st, lines) ==
    IF lines = <<>> THEN st
    ELSE LET ln == Head(lines)
             st2 == scan_matches(prods, vars, maps, st, ln.matches)
             st3 == IF st2.pending_sku # NULL /\ ln.tail # NoQty
                    THEN append_fact(prods, vars, maps, st2, st2.pending_sku, ln.tail[1])
                    ELSE st2
         IN  scan_lines(prods, vars, maps, st3, Tail(lines))

\* processar_pdf_vendas: movimentos
processar_pdf_vendas(prods, vars, maps, doc) ==
    scan_lines(prods, vars, maps,
               [movimentos |-> <<>>, vistos |-> {}, pending_sku |-> NULL], doc).movimentos

\* ------------------------------------------------------------------------
\* Regular expressions (module re).  A pattern is a tree; Ends gives the
\* positions where a match of the pattern that starts at pos can end, in the
\* order in which the backtracking search of re finds them: alternatives
\* from left to right, and a repetition with as many rounds as possible
\* first.  A position is the number of characters before it.
\* ------------------------------------------------------------------------
\* F(x) with x evaluated once, before F is applied to it
At(F(_), x) == CHOOSE y \in {F(v) : v \in {x}} : TRUE

Chr(cs) == [t |-> "set", cs |-> cs]

Cat(rs) == [t |-> "cat", rs |-> rs]

Alt(rs) == [t |-> "alt", rs |-> rs]

\* r{lo,hi}; hi = -1 for no upper limit
Rep(r, lo, hi) == [t |-> "rep", r |-> r, lo |-> lo, hi |-> hi]

\* ^
Bol == [t |-> "bol"]

\* $
Eol == [t |-> "eol"]

\* (?=r)
Ahead(r) == [t |-> "ahead", r |-> r]

\* the characters of s, one after the other
Lit(s) == [t |-> "lit", s |-> s, ignorecase |-> FALSE]

\* re.IGNORECASE on a set of characters
IgnoreCase(cs) == cs \cup {UpperChar(c) : c \in cs} \cup {LowerChar(c) : c \in cs}

\* the characters of s under re.IGNORECASE
LitI(s) == [t |-> "lit", s |-> s, ignorecase |-> TRUE]

\* the characters of the texts of the model; "." is any of them
AnyChar ==
    UpperSet \cup LowerSet \cup Digits \cup {" ", "-", "_", "/", ",", ".", ":", "(", ")"}

\* the ends of r{lo,hi} for r one character of cs: the characters of cs that
\* follow pos, as many as hi allows, then one less, down to lo
RunEnds(cs, lo, hi, s, pos) ==
    LET limit == IF hi < 0 \/ hi > Len(s) - pos THEN Len(s) - pos ELSE hi
        n == CHOOSE k \in 0 .. limit :
                 /\ \A j \in 1 .. k : s[pos + j] \in cs
                 /\ k = limit \/ s[pos + k + 1] \notin cs
    IN  [i \in 1 .. (n - lo + 1) |-> pos + n - i + 1]

\* the text s at pos
LitEnds(lit, ignorecase, s, pos) ==
    IF /\ pos + Len(lit) <= Len(s)
       /\ \A j \in 1 .. Len(lit) :
              IF ignorecase THEN UpperChar(s[pos + j]) = UpperChar(lit[j])
              ELSE s[pos + j] = lit[j]
    THEN <<pos + Len(lit)>> ELSE <<>>

RECURSIVE Ends(_, _, _)
RECURSIVE EndsFrom(_, _, _)
Ends(r, s, pos) ==
    IF r.t = "set" THEN (IF pos < Len(s) /\ s[pos + 1] \in r.cs THEN <<pos + 1>> ELSE <<>>)
    ELSE IF r.t = "lit" THEN LitEnds(r.s, r.ignorecase, s, pos)
    ELSE IF r.t = "bol" THEN (IF pos = 0 THEN <<pos>> ELSE <<>>)
    ELSE IF r.t = "eol" THEN (IF pos = Len(s) THEN <<pos>> ELSE <<>>)
    ELSE IF r.t = "ahead" THEN (IF Ends(r.r, s, pos) # <<>> THEN <<pos>> ELSE <<>>)
    ELSE IF r.t = "alt"
         THEN (IF r.rs = <<>> THEN <<>>
               ELSE Ends(Head(r.rs), s, pos) \o Ends(Alt(Tail(r.rs)), s, pos))
    ELSE IF r.t = "cat"
         THEN (IF r.rs = <<>> THEN <<pos>>
               ELSE At(LAMBDA starts : EndsFrom(Cat(Tail(r.rs)), s, starts),
                       Ends(Head(r.rs), s, pos)))
    ELSE IF r.r.t = "set" THEN RunEnds(r.r.cs, r.lo, r.hi, s, pos)
    ELSE (IF r.hi = 0 THEN <<>>
          ELSE At(LAMBDA starts : EndsFrom(Rep(r.r, IF r.lo > 0 THEN r.lo - 1 ELSE 0,
                                               IF r.hi > 0 THEN r.hi - 1 ELSE r.hi),
                                           s, starts),
                  SelectSeq(Ends(r.r, s, pos), LAMBDA e : e > pos)))
         \o (IF r.lo = 0 THEN <<pos>> ELSE <<>>)

EndsFrom(r, s, starts) ==
    IF starts = <<>> THEN <<>>
    ELSE At(LAMBDA pos : Ends(r, s, pos), Head(starts)) \o EndsFrom(r, s, Tail(starts))

\* re.fullmatch(r, s) is not None
re_fullmatch(r, s) == \E ends \in {Ends(r, s, 0)} : \E i \in DOMAIN ends : ends[i] = Len(s)

\* the first match of r in s that starts at pos or after it: <<start, end>>,
\* or <<>> when there is none
re_search(r, s, pos) ==
    At(LAMBDA starts : IF starts = {} THEN <<>>
                       ELSE At(LAMBDA p : <<p, Head(Ends(r, s, p))>>, SetMin(starts)),
       {p \in pos .. Len(s) : Ends(r, s, p) # <<>>})

\* r.sub(repl, s), for a pattern that matches no empty text
RECURSIVE re_sub(_, _, _, _)
re_sub(r, repl, s, pos) ==
    At(LAMBDA m : IF m = <<>> THEN SubSeq(s, pos + 1, Len(s))
                  ELSE SubSeq(s, pos + 1, m[1]) \o repl \o re_sub(r, repl, s, m[2]),
       re_search(r, s, pos))

\* a pattern of two groups, (r1)(r2): the ends of the two groups in the first
\* match the search finds, given the ends of r1 in the order of the search;
\* <<>> when there is no match
RECURSIVE FirstSplit(_, _, _)
FirstSplit(e1s, r2, s) ==
    IF e1s = <<>> THEN <<>>
    ELSE At(LAMBDA e2s : IF e2s # <<>> THEN <<Head(e1s), Head(e2s)>>
                         ELSE FirstSplit(Tail(e1s), r2, s),
            Ends(r2, s, Head(e1s)))

DigitSeq == <<"0", "1", "2", "3", "4", "5", "6", "7", "8", "9">>

\* int(txt) of a text of digits
RECURSIVE ToInt(_)
ToInt(txt) ==
    IF txt = <<>> THEN 0
    ELSE 10 * ToInt(SubSeq(txt, 1, Len(txt) - 1))
         + (CHOOSE d \in 0 .. 9 : DigitSeq[d + 1] = txt[Len(txt)])

\* ------------------------------------------------------------------------
\* processar_pdf_vendas, from the text of the pages to the matches: the
\* text is given as raw.replace("\r", "\n").split("\n"), the sequence of its
\* lines.
\* ------------------------------------------------------------------------
Whitespace == {" "}

Digit == Chr(Digits)

\* r"\s+\d+/\d+\s*$", the page number at the end of a line
page_number_re ==
    Cat(<<Rep(Chr(Whitespace), 1, -1), Rep(Digit, 1, -1), Lit(<<"/">>), Rep(Digit, 1, -1),
          Rep(Chr(Whitespace), 0, -1), Eol>>)

\* lines: stripped, the empty ones dropped, the page number removed
lines_of(raw) ==
    At(LAMBDA non_empty :
           [i \in DOMAIN non_empty |->
               At(LAMBDA ln : re_sub(page_number_re, <<>>, ln, 0), non_empty[i])],
       SelectSeq([i \in DOMAIN raw |-> Strip(raw[i])], LAMBDA ln : ln # <<>>))

\* skip_re, with re.IGNORECASE; of the accented letters of its classes the
\* texts of the model have the cedilla only
skip_re ==
    Alt(<<Cat(<<Bol, LitI(<<"L","I","S","T","A"," ","D","E"," ","R","E","S","U","M","O">>)>>),
          Cat(<<Bol, LitI(<<"(","P","R","O","D","U","T","O","S"," ","D","O"," ",
                            "A","R","M","A","Z","E","M",")">>)>>),
          Cat(<<Bol, LitI(<<"P","R","O","D","U","T","O","S"," ","D","O"," ",
                            "A","R","M","A","Z","E","M">>)>>),
          Cat(<<Bol, LitI(<<"V","A","R","I","A">>), Chr(IgnoreCase({"C", "~C"})),
                Chr(IgnoreCase({"A"})), LitI(<<"O">>), Eol>>),
          Cat(<<Bol, LitI(<<"S","K","U"," ","D","E"," ","P","R","O","D","U","T","O">>), Eol>>),
          Cat(<<Bol, LitI(<<"Q","T","D">>), Rep(Chr({"."}), 0, 1), Eol>>),
          Cat(<<Bol, LitI(<<"I","M","P","R","I","M","I","R">>), Rep(Chr(AnyChar), 0, -1),
                LitI(<<"U","P","S","E","L","L","E","R">>)>>),
          Cat(<<Bol, LitI(<<"H","T","T","P">>), Rep(Chr(IgnoreCase({"S"})), 0, 1),
                Lit(<<":","/","/">>)>>),
          Cat(<<Bol, Rep(Digit, 1, -1), Lit(<<"/">>), Rep(Digit, 1, -1), Eol>>),
          Cat(<<Bol, Rep(Digit, 1, 2), Lit(<<"/">>), Rep(Digit, 1, 2), Lit(<<"/">>),
                Rep(Digit, 4, 4)>>),
          Cat(<<Bol, LitI(<<"Q","T","D","."," ","D","E"," ","P","E","D","I","D","O","S">>)>>),
          Cat(<<Bol, LitI(<<"N","U","M","E","R","O"," ","D","E"," ","S","K","U","S"," ",
                            "D","E"," ","P","R","O","D","U","T","O","S">>)>>),
          Cat(<<Bol, LitI(<<"T","O","T","A","L"," ","D","E"," ",
                            "P","R","O","D","U","T","O","S">>)>>)>>)

\* kept = [ln for ln in lines if not skip_re.search(ln)]
kept_of(lines) == SelectSeq(lines, LAMBDA ln : re_search(skip_re, ln, 0) = <<>>)

\* cur.endswith("-")
endswith_dash(cur) == cur # <<>> /\ cur[Len(cur)] = "-"

\* while cur.endswith("-") and i < len(kept): cur = cur + kept[i]; i += 1
\* (i counts from 1 here)
RECURSIVE merge_while(_, _, _)
merge_while(kept, cur, i) ==
    IF endswith_dash(cur) /\ i <= Len(kept) THEN merge_while(kept, cur \o kept[i], i + 1)
    ELSE [cur |-> cur, i |-> i]

\* merged, from kept[i] on
RECURSIVE merged_from(_, _)
merged_from(kept, i) ==
    IF i > Len(kept) THEN <<>>
    ELSE IF endswith_dash(kept[i]) /\ i + 1 <= Len(kept)
         THEN LET w == merge_while(kept, kept[i] \o kept[i + 1], i + 2)
              IN  <<w.cur>> \o merged_from(kept, w.i)
    ELSE <<kept[i]>> \o merged_from(kept, i + 1)

SIZE ==
    Alt(<<Lit(<<"X", "G", "G">>), Lit(<<"G", "G">>), Lit(<<"X", "G">>), Lit(<<"P", "P">>),
          Lit(<<"G">>), Lit(<<"M">>), Lit(<<"P">>), Rep(Digit, 1, 3)>>)

\* (?:[A-Z]{2,}(?:-[A-Z]{2,}){0,2}), the start of TOKEN and of the two
\* lookaheads
TOKEN_HEAD ==
    Cat(<<Rep(Chr(Range(UpperLetters)), 2, -1),
          Rep(Cat(<<Lit(<<"-">>), Rep(Chr(Range(UpperLetters)), 2, -1)>>), 0, 2)>>)

\* [A-Z0-9...]+ with the accented capitals
TOKEN_WORD == Rep(Chr(Range(UpperLetters) \cup Digits \cup AccentUpper), 1, -1)

TOKEN ==
    Cat(<<TOKEN_HEAD, Lit(<<"-">>), TOKEN_WORD,
          Rep(Cat(<<Lit(<<"-">>), TOKEN_WORD>>), 0, 1), Lit(<<"-">>), SIZE>>)

\* ({TOKEN})(\d{1,3})?
sku_pattern == Cat(<<TOKEN, Rep(Rep(Digit, 1, 3), 0, 1)>>)

preface_size_start == Cat(<<Bol, SIZE, Ahead(Cat(<<TOKEN_HEAD, Lit(<<"-">>)>>))>>)

preface_size_after_comma ==
    Cat(<<Lit(<<",">>), SIZE, Ahead(Cat(<<TOKEN_HEAD, Lit(<<"-">>)>>))>>)

\* size_suffix_re.match(token): the ends of its two groups, <<>> for no match
size_suffix_re(token) ==
    At(LAMBDA e1s : FirstSplit(e1s, Cat(<<SIZE, Eol>>), token),
       Ends(Cat(<<Bol, Rep(Chr(AnyChar), 0, -1), Lit(<<"-">>)>>), token, 0))

recognized_sizes ==
    {<<"4">>, <<"6">>, <<"8">>, <<"1", "0">>, <<"1", "2">>, <<"1", "4">>, <<"1", "6">>,
     <<"P">>, <<"M">>, <<"G">>, <<"G", "G">>, <<"P", "P">>, <<"X", "G">>, <<"X", "G", "G">>}

\* compact: norm, then the two preface substitutions
compact_of(ln) ==
    At(LAMBDA c2 : re_sub(preface_size_after_comma, <<",">>, c2, 0),
       At(LAMBDA c1 : re_sub(preface_size_start, <<>>, c1, 0), norm(ln)))

\* maybe_int; None is NoQty, and a next_char of None is ""
maybe_int(txt, next_char) ==
    IF txt = NULL THEN NoQty
    ELSE IF ~re_fullmatch(Rep(Digit, 1, 3), txt) THEN NoQty
    ELSE IF next_char = "/" THEN <<ToInt(<<txt[1]>>)>>
    ELSE <<ToInt(txt)>>

\* sku_pattern.finditer(compact), from pos on: of each match its start,
\* m.end(1) and m.end().  Group 2 never makes the search go back, so group 1
\* ends at the first end of TOKEN.
RECURSIVE finditer(_, _)
finditer(compact, pos) ==
    At(LAMBDA m :
           IF m = <<>> THEN <<>>
           ELSE <<[start |-> m[1], end1 |-> Head(Ends(TOKEN, compact, m[1])), end |-> m[2]]>>
                \o finditer(compact, m[2]),
       re_search(sku_pattern, compact, pos))

\* while len(s) > 1 and s not in recognized_sizes: take = s[-1] + take; s = s[:-1]
RECURSIVE peel(_, _)
peel(s, take) ==
    IF Len(s) > 1 /\ s \notin recognized_sizes
    THEN peel(SubSeq(s, 1, Len(s) - 1), <<s[Len(s)]>> \o take)
    ELSE [s |-> s, take |-> take]

\* token_out and qty_str of a match, from token and group 2 (NULL for None)
size_split_at(token, qty_str, ms) ==
    LET head == SubSeq(token, 1, ms[1])
        size_part == SubSeq(token, ms[1] + 1, ms[2])
        p == peel(size_part, <<>>)
        peeled == IF /\ ms # <<>>
                     /\ qty_str = NULL
                     /\ re_fullmatch(Rep(Digit, 2, 3), size_part)
                     /\ size_part \notin recognized_sizes
                     /\ p.take # <<>>
                  THEN [token_out |-> head \o p.s, qty_str |-> p.take]
                  ELSE [token_out |-> token, qty_str |-> qty_str]
    IN  IF ms # <<>> /\ peeled.qty_str = NULL /\ re_fullmatch(Rep(Digit, 3, 3), size_part)
        THEN [token_out |-> head \o SubSeq(size_part, 1, 2),
              qty_str |-> SubSeq(size_part, 3, Len(size_part))]
        ELSE peeled

size_split(token, qty_str) ==
    At(LAMBDA ms : size_split_at(token, qty_str, ms), size_suffix_re(token))

\* next_char of a match; m.end(2) is -1 when group 2 took no part in the
\* match, and compact[-1] is the last character of the line
next_char_of(compact, m, qty_str) ==
    LET end2 == IF m.end = m.end1 THEN 0 - 1 ELSE m.end
    IN  IF qty_str # NULL /\ qty_str # <<>> /\ end2 < Len(compact)
        THEN (IF end2 < 0 THEN compact[Len(compact) + end2 + 1] ELSE compact[end2 + 1])
        ELSE IF m.end1 < Len(compact) THEN compact[m.end1 + 1]
        ELSE ""

\* the body of the loop over the matches, up to qty_val
match_of(compact, m) ==
    At(LAMBDA sp :
           [token_out |-> sp.token_out,
            qty_val |-> IF sp.qty_str # NULL /\ sp.qty_str # <<>>
                        THEN maybe_int(sp.qty_str, next_char_of(compact, m, sp.qty_str))
                        ELSE NoQty],
       size_split(SubSeq(compact, m.start + 1, m.end1),
                  IF m.end = m.end1 THEN NULL ELSE SubSeq(compact, m.end1 + 1, m.end)))

\* the quantity read from tail = compact[last_end:], NoQty when tail is
\* neither 1-3 digits nor a size followed by 1-3 digits
tail_qty(tail) ==
    IF re_fullmatch(Rep(Digit, 1, 3), tail) THEN maybe_int(tail, "")
    ELSE At(LAMBDA m2 : IF m2 # <<>> THEN <<ToInt(SubSeq(tail, m2[1] + 1, m2[2]))>> ELSE NoQty,
            At(LAMBDA e1s : FirstSplit(e1s, Cat(<<Rep(Digit, 1, 3), Eol>>), tail),
               Ends(Rep(SIZE, 0, 1), tail, 0)))

\* a merged line as the loop over the lines sees it: its matches and its tail
line_of_compact(compact, ms) ==
    LET last_end == IF ms = <<>> THEN 0 ELSE ms[Len(ms)].end
    IN  [matches |-> [i \in DOMAIN ms |-> At(LAMBDA m : match_of(compact, m), ms[i])],
         tail |-> At(LAMBDA tail : tail_qty(tail), SubSeq(compact, last_end + 1, Len(compact)))]

line_of(ln) ==
    At(LAMBDA compact : At(LAMBDA ms : line_of_compact(compact, ms), finditer(compact, 0)),
       compact_of(ln))

\* the merged lines of a text, as the loop over the lines sees them
document_of(raw) ==
    At(LAMBDA merged : [i \in DOMAIN merged |-> At(LAMBDA ln : line_of(ln), merged[i])],
       At(LAMBDA kept : merged_from(kept, 1), kept_of(lines_of(raw))))

\* the return as it would be with no test of movimentos
return_of_always_ok(movimentos) == [ok |-> TRUE, movimentos |-> movimentos, msg |-> "Encontrados itens no PDF"]

\* the value processar_pdf_vendas returns for a list movimentos
return_of(movimentos) ==
    IF movimentos = <<>>
    THEN [ok |-> FALSE, movimentos |-> <<>>, msg |-> "Nenhum item encontrado no PDF."]
    ELSE [ok |-> TRUE, movimentos |-> movimentos, msg |-> "Encontrados itens no PDF"]

\* ------------------------------------------------------------------------
\* Bounds and the inputs the handlers are exercised with.  Every handler
\* takes the sets its inputs are drawn from, so that a specification can
\* exercise one part of the program widely and the rest narrowly.
\* ------------------------------------------------------------------------
MaxVariants == 2

MaxMovements == 2

MaxBatchMovements == 3

\* rowids grow without limit as rows are deleted and inserted; a step that
\* would hand out a rowid above the bound is not taken
MaxRowId == 2

MaxQty == 2

MaxLedgerQty == 1

MaxLines == 2

MaxClock == 1

Categories == {<<"c", "a">>, <<" ", "m", "o">>}

Subtypes == {<<"x">>}

Colors == {<<"a", "z">>}

Sizes == {<<"M">>}

SkuBases == {NULL, <<>>, <<"B">>}

SkuOverrides == {<<>>, <<"k", "-", "1">>}

NewSkus == {<<"k", "-", "1">>}

UnknownSkus == {<<"Z", "Z">>}

\* identifiers read from a document: "k1" has the normalized key of the
\* ledger SKU K-1
ResolveSkus == {<<"k", "1">>, <<"P", "-", "1">>}

MaxDocLines == 3

\* the lines of the documents: the same identifier and quantity written in
\* lower and in upper case, the identifier with another quantity, an
\* identifier whose quantity is the tail of the line, an identifier left
\* pending, a line of digits, and a line of two matches
DocLines ==
    {[matches |-> <<[token_out |-> <<"a", "b", "-", "x", "-", "m">>, qty_val |-> <<2>>]>>,
      tail |-> NoQty],
     [matches |-> <<[token_out |-> <<"A", "B", "-", "X", "-", "M">>, qty_val |-> <<2>>]>>,
      tail |-> NoQty],
     [matches |-> <<[token_out |-> <<"A", "B", "-", "X", "-", "M">>, qty_val |-> <<1>>]>>,
      tail |-> NoQty],
     [matches |-> <<[token_out |-> <<"C", "D", "-", "-", "Y", "-", "P">>, qty_val |-> NoQty]>>,
      tail |-> <<2>>],
     [matches |-> <<[token_out |-> <<"A", "B", "-", "X", "-", "M">>, qty_val |-> NoQty]>>,
      tail |-> NoQty],
     [matches |-> <<>>, tail |-> <<2>>],
     [matches |-> <<[token_out |-> <<"C", "D", "-", "Y", "-", "P">>, qty_val |-> <<2>>],
                    [token_out |-> <<"A", "B", "-", "X", "-", "M">>, qty_val |-> <<2>>]>>,
      tail |-> NoQty]}

Docs == UNION {[1 .. n -> DocLines] : n \in 1 .. MaxDocLines}

\* the lines of the texts of uploaded documents: identifiers with a size of
\* three digits (the first two a recognized size or not), the two halves of
\* an identifier broken at the end of a line, a heading, an identifier with
\* text after it, a line of digits, quantities followed by "/", an
\* identifier followed by a size and digits, and a line with a page number
RawLines ==
    {<<"M","O","L","-","C","A","R","E","C","A","-","A","Z","U","L","-","2","0","5">>,
     <<"A","B","-","C","D","-","1","2","5">>,
     <<"A","B","-","C","D","-","2","0","5">>,
     <<"C","A","M","-","L","I","S","A","-","A","Z","U","-">>,
     <<"L","-","M","1","2">>,
     <<"L","I","S","T","A"," ","D","E"," ","R","E","S","U","M","O">>,
     <<"A","B","-","C","D","-","M"," ","X">>,
     <<"1","2">>,
     <<"A","B","-","C","D","-","M","1","2","/","3">>,
     <<"A","B","-","C","D","-","3","2","5","/","1">>,
     <<"A","B","-","C","D","-","3","0","5",",","E","F","-","G","H","-","M","2","/">>,
     <<"A","B","-","C","D","-","M"," ","G","G","5">>,
     <<" ","a","b","-","x","-","m","2"," ","1","/","2">>}

\* texts of three lines: an identifier broken twice, and one broken around
\* a heading
RawDocs3 ==
    {<<<<"A","B","-">>, <<"C","D","-">>, <<"M","2">>>>,
     <<<<"A","B","-","C","D","-">>, <<"Q","T","D",".">>, <<"M","2">>>>,
     <<<<"A","B","-","C","D","-","M">>, <<"x">>, <<"7">>>>}

RawDocs == UNION {[1 .. n -> RawLines] : n \in 1 .. 2} \cup RawDocs3

\* the texts typed into the field "SKU (PDF)": every text of one to
\* MaxTextLen characters, of letters in both cases, a digit, the space, the
\* characters "-" and "_", an accented letter and a full stop
MaxTextLen == 3

SanitizeChars == {"a", "B", "1", " ", "-", "_", "~c", "."}

SanitizeInputs == UNION {[1 .. n -> SanitizeChars] : n \in 1 .. MaxTextLen}

\* texts uploaded before a run of "Aplicar baixas": one fact, a heading
\* alone, and a fact of an identifier the registry does not hold
UploadDocs ==
    {<<<<" ","a","b","-","x","-","m","2"," ","1","/","2">>>>,
     <<<<"L","I","S","T","A"," ","D","E"," ","R","E","S","U","M","O">>>>,
     <<<<"A","B","-","C","D","-","M","1","2","/","3">>>>}

\* identifiers of documents that the registry can hold
DocSkus == {<<"A", "B", "-", "X", "-", "M">>}

\* the cell "SKU (no estoque)" of a row left blank
BlankSkus == {<<" ">>}

PdfSkus == {<<"P", "-", "1">>, <<"p", "-", "1">>, <<"P", "-", "2">>}

CostInputs == {NoCost, <<2>>}

Reasons == {"entrada", "venda", "venda_pdf", "ajuste"}

\* ------------------------------------------------------------------------
\* State
\* ------------------------------------------------------------------------
VARIABLES
    products,      \* table products
    variants,      \* table variants
    movements,     \* table movements
    sku_mapping,   \* table sku_mapping
    clock,         \* datetime.now(), in seconds
    last,          \* the outcome of the last handler that ran
    sess           \* per browser session: the run of the "Baixa por PDF" script

vars == <<products, variants, movements, sku_mapping, clock, last, sess>>

tables == <<products, variants, movements, sku_mapping>>

Outcome(op, ok, err, sku, qty, reason) ==
    [op |-> op, ok |-> ok, err |-> err, sku |-> sku, qty |-> qty, reason |-> reason]

IdleSession ==
    [pc |-> "idle", raw |-> <<>>, doc |-> <<>>, movimentos |-> <<>>,
     edited |-> <<>>, i |-> 0, grava_map |-> FALSE,
     sku_san_to_orig |-> <<>>, map_estoque |-> <<>>,
     ok_count |-> 0, mapeados |-> 0, erros |-> 0, faltando |-> 0,
     total_faltou_vender |-> 0]

Sessions == {1, 2}

\* init_db on a new file: the four tables are empty
Init ==
    /\ products = {}
    /\ variants = {}
    /\ movements = {}
    /\ sku_mapping = {}
    /\ clock = 0
    /\ last = Outcome("init", TRUE, "", <<>>, 0, "")
    /\ sess = [s \in Sessions |-> IdleSession]

Skus == {v.sku : v \in variants}

RowIdsWithin(table, bound) == \A r \in table : r.id <= bound

\* the bounds of a specification, on the tables a step leaves
Bounded(maxMovements) ==
    /\ Cardinality(variants') <= MaxVariants
    /\ RowIdsWithin(products', MaxRowId)
    /\ RowIdsWithin(variants', MaxRowId)
    /\ RowIdsWithin(sku_mapping', MaxRowId)
    /\ RowIdsWithin(movements', maxMovements)

\* ------------------------------------------------------------------------
\* Handlers of the ledger pages
\* ------------------------------------------------------------------------
Tick ==
    /\ clock < MaxClock
    /\ clock' = clock + 1
    /\ UNCHANGED <<tables, last, sess>>

\* page "Cadastrar Tipo/Subtipo" and any other caller of get_or_create_product
UpsertProductType(categories, bases, costs) ==
    \E category \in categories, subtype \in Subtypes, sku_base \in bases, custo \in costs :
        LET g == get_or_create_product(products, category, subtype, sku_base, custo)
        IN  /\ products' = g.products
            /\ last' = Outcome("get_or_create_product", TRUE, "", <<>>, 0, "")
            /\ UNCHANGED <<variants, movements, sku_mapping, clock, sess>>

\* page "Cadastrar Variante"
CreateVariant(categories, bases, overrides, costs) ==
    \E category \in categories, subtype \in Subtypes, color \in Colors,
       size \in Sizes, sku_base \in bases, sku_override \in overrides, cvar \in costs :
        LET r == create_variant(products, variants, category, subtype, color, size,
                                sku_base, sku_override, cvar)
        IN  /\ products' = r.products
            /\ variants' = r.variants
            /\ last' = Outcome("create_variant", r.ok, r.err, r.sku, 0, "")
            /\ UNCHANGED <<movements, sku_mapping, clock, sess>>

\* page "Editar Variante"
UpdateVariant(categories, bases, costs) ==
    \E old_sku \in Skus \cup UnknownSkus, new_sku \in Skus \cup NewSkus,
       category \in categories, subtype \in Subtypes, color \in Colors,
       size \in Sizes, sku_base \in bases \ {<<>>}, cvar \in costs :
        LET r == update_variant(products, variants, sku_mapping, old_sku, new_sku,
                                category, subtype, color, size, sku_base, cvar)
        IN  /\ products' = r.products
            /\ variants' = r.variants
            /\ last' = Outcome("update_variant", r.ok, r.err, new_sku, 0, "")
            /\ UNCHANGED <<movements, sku_mapping, clock, sess>>

\* page "Remover Variante"
DeleteVariant ==
    \E sku \in Skus \cup UnknownSkus :
        LET r == delete_variant(products, variants, movements, sku_mapping, sku)
        IN  /\ products' = r.products
            /\ variants' = r.variants
            /\ movements' = r.movements
            /\ sku_mapping' = r.sku_mapping
            /\ last' = Outcome("delete_variant", r.ok, r.err, sku, 0, "")
            /\ UNCHANGED <<clock, sess>>

\* page "Gerenciar SKU Base"
UpdateSkuBaseBulk(categories) ==
    \E category \in categories, subtype \in Subtypes, new_base \in SkuBases \ {NULL, <<>>} :
        LET r == update_sku_base_bulk(products, variants, sku_mapping,
                                      category, subtype, new_base)
        IN  /\ products' = r.products
            /\ variants' = r.variants
            /\ last' = Outcome("update_sku_base_bulk", r.ok, r.err, <<>>, 0, "")
            /\ UNCHANGED <<movements, sku_mapping, clock, sess>>

\* page "Custo por Categoria/Subtipo (em massa)", one product row
UpdateCustoUnitario ==
    \E p \in products, novo \in CostInputs \ {NoCost} :
        LET r == update_custo_unitario(products, p.category, p.subtype, novo)
        IN  /\ products' = r.products
            /\ last' = Outcome("update_custo_unitario", r.ok, r.err, <<>>, 0, "")
            /\ UNCHANGED <<variants, movements, sku_mapping, clock, sess>>

\* ------------------------------------------------------------------------
\* Handlers that record movements
\* ------------------------------------------------------------------------
\* record_movement called as a function of the ledger
RecordMovement(qtys, reasons) ==
    \E sku \in Skus \cup UnknownSkus, qty \in qtys, reason \in reasons :
        LET r == record_movement(variants, movements, sku, qty, reason, clock)
        IN  /\ movements' = r.movements
            /\ last' = Outcome("record_movement", r.ok, r.err, sku, qty, reason)
            /\ UNCHANGED <<products, variants, sku_mapping, clock, sess>>

\* page "Movimentar Estoque": the quantity handed to record_movement
quantidade_a_registrar(reason, qty_final, estoque_atual) ==
    IF reason \in {"venda", "venda_pdf"}
       /\ (IF qty_final < 0 THEN 0 - qty_final ELSE qty_final) > estoque_atual
    THEN 0 - estoque_atual
    ELSE qty_final

\* page "Movimentar Estoque", button "Registrar movimentacao"
MovimentarEstoque(qtys, reasons) ==
    \E sku \in Skus, qtd_input \in qtys, reason \in reasons, positivo \in BOOLEAN :
        LET estoque_atual == estoque_of_sku(products, variants, movements, sku)
            qty_final == IF reason = "ajuste"
                         THEN (IF positivo THEN qtd_input ELSE 0 - qtd_input)
                         ELSE (IF reason = "entrada" THEN qtd_input ELSE 0 - qtd_input)
            qty == quantidade_a_registrar(reason, qty_final, estoque_atual)
            r == record_movement(variants, movements, sku, qty, reason, clock)
        IN  /\ movements' = r.movements
            /\ last' = Outcome("movimentar_estoque", r.ok, r.err, sku, qty, reason)
            /\ UNCHANGED <<products, variants, sku_mapping, clock, sess>>

\* page "Contagem de Estoque", button "Aplicar contagem"
ContagemEstoque(contados) ==
    \E sku \in Skus, novo \in contados :
        LET saldo_atual == estoque_of_sku(products, variants, movements, sku)
            delta == novo - saldo_atual
            r == record_movement(variants, movements, sku, delta, "ajuste", clock)
        IN  /\ delta # 0
            /\ movements' = r.movements
            /\ last' = Outcome("contagem_estoque", r.ok, r.err, sku, delta, "ajuste")
            /\ UNCHANGED <<products, variants, sku_mapping, clock, sess>>

\* ------------------------------------------------------------------------
\* Page "Mapeamento de SKUs"
\* ------------------------------------------------------------------------
AddMapping(pdfs) ==
    \E sku_pdf \in pdfs, sku_estoque \in Skus :
        LET r == upsert_mapping(variants, sku_mapping, sanitize_sku(sku_pdf), sku_estoque)
        IN  /\ sku_mapping' = r.sku_mapping
            /\ last' = Outcome("add_mapping", r.ok, "", sku_estoque, 0, "")
            /\ UNCHANGED <<products, variants, movements, clock, sess>>

\* page "Valor do Estoque" with no filter: the metric "Valor Total do Estoque"
ValorDoEstoque ==
    /\ last' = Outcome("valor_do_estoque", TRUE, "", <<>>,
                       valor_total(products, variants, movements), "")
    /\ UNCHANGED <<tables, clock, sess>>

\* page "Baixa por PDF": a file is uploaded and processar_pdf_vendas reads it
ProcessarPdf(s, docs) ==
    \E doc \in docs :
        LET movimentos == processar_pdf_vendas(products, variants, sku_mapping, doc)
        IN  /\ sess[s].pc = "idle"
            /\ sess[s].doc = <<>>
            /\ sess' = [sess EXCEPT ![s].doc = doc, ![s].movimentos = movimentos]
            /\ last' = Outcome("processar_pdf_vendas", movimentos # <<>>, "", <<>>,
                               Len(movimentos), "")
            /\ UNCHANGED <<tables, clock>>

\* the upload as it would be if reading the file wrote the sale of its first
\* fact at once
UploadPdf_writing(s, raws) ==
    \E raw \in raws :
        /\ sess[s].pc = "idle"
        /\ sess[s].raw = <<>>
        /\ sess[s].doc = <<>>
        /\ \E doc \in {document_of(raw)} :
           \E r \in {return_of(processar_pdf_vendas(products, variants, sku_mapping, doc))} :
            /\ sess' = [sess EXCEPT ![s].raw = raw, ![s].doc = doc,
                                    ![s].movimentos = r.movimentos]
            /\ last' = Outcome("processar_pdf_vendas", r.ok, IF r.ok THEN "" ELSE r.msg,
                               <<>>, Len(r.movimentos), "")
            /\ movements' = IF r.ok
                            THEN record_movement(variants, movements, r.movimentos[1].sku,
                                                 0 - r.movimentos[1].quantidade, "venda_pdf",
                                                 clock).movements
                            ELSE movements
            /\ UNCHANGED <<products, variants, sku_mapping, clock>>

\* page "Baixa por PDF": a file is uploaded, given by the text of its pages,
\* and processar_pdf_vendas reads it
UploadPdf(s, raws) ==
    \E raw \in raws :
        /\ sess[s].pc = "idle"
        /\ sess[s].raw = <<>>
        /\ sess[s].doc = <<>>
        /\ \E doc \in {document_of(raw)} :
           \E r \in {return_of(processar_pdf_vendas(products, variants, sku_mapping, doc))} :
            /\ sess' = [sess EXCEPT ![s].raw = raw, ![s].doc = doc,
                                    ![s].movimentos = r.movimentos]
            /\ last' = Outcome("processar_pdf_vendas", r.ok, IF r.ok THEN "" ELSE r.msg,
                               <<>>, Len(r.movimentos), "")
            /\ UNCHANGED <<tables, clock>>

\* processar_pdf_vendas asks get_sku_mapping for the ledger SKU of an
\* identifier it has read
ResolveSku(pdfs) ==
    \E sku_pdf \in pdfs :
        LET r == get_sku_mapping(products, variants, sku_mapping, sku_pdf)
        IN  /\ last' = Outcome("get_sku_mapping", r # NULL, "", r, 0, "")
            /\ UNCHANGED <<tables, clock, sess>>

DeleteMapping ==
    \E m \in sku_mapping :
        /\ sku_mapping' = sku_mapping \ {m}
        /\ last' = Outcome("delete_mapping", TRUE, "", m.sku_estoque, 0, "")
        /\ UNCHANGED <<products, variants, movements, clock, sess>>

\* ------------------------------------------------------------------------
\* Page "Baixa por PDF", button "Aplicar baixas (venda_pdf)".  A browser
\* session runs the script in its own thread: it reads the snapshot
\* (sku_san_to_orig, map_estoque), then walks the reviewed rows; every
\* record_movement and every mapping upsert is a transaction of its own, and
\* the sessions' transactions interleave.
\* ------------------------------------------------------------------------
RowInputs(pdfs, texts, qtys) ==
    [sku_pdf : pdfs, sku : Skus \cup texts, quantidade_corrigida : qtys]

Batches(rows, lines) == UNION {[1 .. n -> rows] : n \in 1 .. lines}

Min2(a, b) == IF a < b THEN a ELSE b

Max2(a, b) == IF a > b THEN a ELSE b

\* the stock as a query made at the row would give it, in place of the
\* value of the snapshot
estoque_atual_item_live(se, sku_original) ==
    estoque_of_sku(products, variants, movements, sku_original)

\* map_estoque.get(sku_original, 0)
estoque_atual_item(se, sku_original) ==
    IF sku_original \in DOMAIN se.map_estoque THEN se.map_estoque[sku_original] ELSE 0

quantidade_a_baixar(qtd, estoque) == Min2(qtd, estoque)

faltara_item(qtd, estoque) == Max2(0, qtd - estoque)

\* the loop as it would be if a row counted as an error ended the run
NextRow_stop_on_error(se) ==
    [se EXCEPT !.i = @ + 1,
               !.pc = IF se.i + 1 > Len(se.edited) \/ se.erros > 0
                      THEN "report" ELSE "move"]

\* the session after the row it is on: the next row, or the success message
NextRow(se) ==
    [se EXCEPT !.i = @ + 1, !.pc = IF se.i + 1 > Len(se.edited) THEN "report" ELSE "move"]

ApplyBegin(s, pdfs, texts, qtys, lines, gravas) ==
    \E edited \in Batches(RowInputs(pdfs, texts, qtys), lines), grava_map \in gravas :
        /\ sess[s].pc = "idle"
        /\ sess' = [sess EXCEPT ![s] =
               [pc |-> "move", raw |-> sess[s].raw, doc |-> sess[s].doc,
                movimentos |-> sess[s].movimentos,
                edited |-> edited, i |-> 1, grava_map |-> grava_map,
                sku_san_to_orig |-> sanitized_to_original_sku_map(products, variants),
                map_estoque |-> map_estoque_of(products, variants, movements),
                ok_count |-> 0, mapeados |-> 0, erros |-> 0, faltando |-> 0,
                total_faltou_vender |-> 0]]
        /\ last' = Outcome("aplicar_baixas", TRUE, "", <<>>, 0, "")
        /\ UNCHANGED <<tables, clock>>

\* one iteration of the loop up to and including record_movement
ApplyMove(s) ==
    LET se == sess[s]
        r == se.edited[se.i]
        sku_pdf == sanitize_sku(r.sku_pdf)
        qtd == r.quantidade_corrigida
        sku_est_sanit == sanitize_sku(r.sku)
    IN  /\ se.pc = "move"
        /\ IF sku_est_sanit = <<>>
           THEN /\ sess' = [sess EXCEPT ![s] = NextRow([se EXCEPT !.faltando = @ + 1])]
                /\ last' = Outcome("baixa_linha", FALSE, "Unmapped", <<>>, 0, "venda_pdf")
                /\ UNCHANGED <<tables, clock>>
           ELSE IF sku_est_sanit \notin DOMAIN se.sku_san_to_orig
           THEN /\ sess' = [sess EXCEPT ![s] = NextRow([se EXCEPT !.erros = @ + 1])]
                /\ last' = Outcome("baixa_linha", FALSE, "UnknownSku", r.sku, 0, "venda_pdf")
                /\ UNCHANGED <<tables, clock>>
           ELSE
             LET sku_original == se.sku_san_to_orig[sku_est_sanit]
                 estoque == estoque_atual_item(se, sku_original)
                 baixar == quantidade_a_baixar(qtd, estoque)
                 falta == faltara_item(qtd, estoque)
                 rm == record_movement(variants, movements, sku_original, 0 - baixar,
                                       "venda_pdf", clock)
                 upsert == se.grava_map /\ sku_pdf # <<>>
                 after == IF upsert THEN [se EXCEPT !.pc = "map"] ELSE NextRow(se)
             IN  IF baixar > 0
                 THEN /\ movements' = rm.movements
                      /\ sess' = [sess EXCEPT ![s] =
                             IF rm.ok
                             THEN [after EXCEPT !.ok_count = @ + 1,
                                                !.total_faltou_vender =
                                                    IF falta > 0 THEN @ + falta ELSE @]
                             ELSE NextRow([se EXCEPT !.erros = @ + 1])]
                      /\ last' = Outcome("baixa_linha", rm.ok, rm.err, sku_original,
                                         0 - baixar, "venda_pdf")
                      /\ UNCHANGED <<products, variants, sku_mapping, clock>>
                 ELSE /\ sess' = [sess EXCEPT ![s] = after]
                      /\ last' = Outcome("baixa_linha", TRUE, "", sku_original, 0, "venda_pdf")
                      /\ UNCHANGED <<tables, clock>>

\* the rest of the iteration: the mapping upsert, whose failure is swallowed
ApplyMap(s) ==
    LET se == sess[s]
        r == se.edited[se.i]
        sku_original == se.sku_san_to_orig[sanitize_sku(r.sku)]
        u == upsert_mapping(variants, sku_mapping, sanitize_sku(r.sku_pdf), sku_original)
    IN  /\ se.pc = "map"
        /\ sku_mapping' = u.sku_mapping
        /\ sess' = [sess EXCEPT ![s] =
               NextRow([se EXCEPT !.mapeados = IF u.ok THEN @ + 1 ELSE @])]
        /\ last' = Outcome("baixa_mapeamento", u.ok, "", sku_original, 0, "")
        /\ UNCHANGED <<products, variants, movements, clock>>

\* mensagem_sucesso is shown with the counts of the run, and the script ends
ApplyReport(s) ==
    /\ sess[s].pc = "report"
    /\ sess' = [sess EXCEPT ![s] = IdleSession]
    /\ last' = Outcome("baixas_aplicadas", TRUE, "", <<>>, 0, "")
    /\ UNCHANGED <<tables, clock>>

\* ------------------------------------------------------------------------
\* Specifications
\* ------------------------------------------------------------------------
\* No "Baixa por PDF" script is running: with one writer a handler starts
\* only after the one before it has returned.
AllIdle == \A s \in Sessions : sess[s].pc = "idle"

OneCategory == {<<"c", "a">>}

OnePdfSku == {<<"P", "-", "1">>}

\* The catalogue: product types, variants and mappings, one writer.
NextCatalog ==
    \/ UpsertProductType(Categories, {NULL, <<"B">>}, {NoCost}) /\ Bounded(0)
    \/ CreateVariant(Categories, {NULL, <<"B">>}, SkuOverrides, {NoCost}) /\ Bounded(0)
    \/ UpdateVariant(Categories, {NULL}, {NoCost}) /\ Bounded(0)
    \/ DeleteVariant
    \/ UpdateSkuBaseBulk(Categories)

SpecCatalog == Init /\ [][NextCatalog]_vars

\* The whole ledger, one writer: every handler, each with few inputs.
NextLedger ==
    \/ AllIdle /\ CreateVariant(OneCategory, {NULL}, SkuOverrides, {NoCost})
               /\ Bounded(MaxMovements)
    \/ AllIdle /\ UpdateVariant(OneCategory, {NULL}, {NoCost})
    \/ AllIdle /\ DeleteVariant
    \/ AllIdle /\ UpdateSkuBaseBulk(OneCategory)
    \/ AllIdle /\ RecordMovement((0 - MaxLedgerQty) .. MaxLedgerQty, {"entrada"})
               /\ Bounded(MaxMovements)
    \/ ApplyBegin(1, OnePdfSku, {}, 1 .. MaxLedgerQty, 1, {TRUE})
    \/ ApplyMove(1) /\ Bounded(MaxMovements)
    \/ ApplyMap(1) /\ Bounded(MaxMovements)
    \/ ApplyReport(1)

SpecLedger == Init /\ [][NextLedger]_vars

\* One browser session applying reviewed batches to a stocked ledger: stock
\* comes in through entries only and goes out through the batch only.
NextBatch ==
    \/ AllIdle /\ CreateVariant(OneCategory, {NULL}, SkuOverrides, {NoCost})
               /\ Bounded(MaxBatchMovements)
    \/ AllIdle /\ MovimentarEstoque(1 .. MaxQty, {"entrada"})
               /\ Bounded(MaxBatchMovements)
    \/ ApplyBegin(1, OnePdfSku, UnknownSkus \cup BlankSkus, 1 .. MaxQty, MaxLines, BOOLEAN)
    \/ ApplyMove(1) /\ Bounded(MaxBatchMovements)
    \/ ApplyMap(1) /\ Bounded(MaxBatchMovements)
    \/ ApplyReport(1)

SpecBatch == Init /\ [][NextBatch]_vars

\* The pages that record movements, one browser session, over one variant.
NextPages ==
    \/ Tick
    \/ AllIdle /\ CreateVariant(OneCategory, {NULL}, {<<>>}, {NoCost})
               /\ Bounded(MaxMovements)
    \/ AllIdle /\ MovimentarEstoque(1 .. MaxQty, Reasons) /\ Bounded(MaxMovements)
    \/ AllIdle /\ ContagemEstoque((0 - 1) .. MaxQty) /\ Bounded(MaxMovements)
    \/ ApplyBegin(1, OnePdfSku, {}, 1 .. MaxQty, 1, {FALSE})
    \/ ApplyMove(1) /\ Bounded(MaxMovements)
    \/ ApplyReport(1)

SpecPages == Init /\ [][NextPages]_vars

\* Two browser sessions press "Aplicar baixas" over the same variant; their
\* transactions interleave.
NextConcurrent ==
    \/ AllIdle /\ CreateVariant(OneCategory, {NULL}, {<<>>}, {NoCost})
               /\ Bounded(MaxBatchMovements)
    \/ AllIdle /\ MovimentarEstoque(1 .. MaxQty, {"entrada"}) /\ Bounded(MaxBatchMovements)
    \/ \E s \in Sessions : ApplyBegin(s, OnePdfSku, {}, 1 .. MaxQty, 1, {FALSE})
    \/ \E s \in Sessions : ApplyMove(s) /\ Bounded(MaxBatchMovements)
    \/ \E s \in Sessions : ApplyReport(s)

SpecConcurrent == Init /\ [][NextConcurrent]_vars

\* One run of "Aplicar baixas" while the "Remover Variante" page is used from
\* another tab: a variant of the snapshot can be gone when its row is reached.
NextBestEffort ==
    \/ AllIdle /\ CreateVariant(OneCategory, {NULL}, SkuOverrides, {NoCost})
               /\ Bounded(MaxMovements)
    \/ AllIdle /\ MovimentarEstoque(1 .. 1, {"entrada"}) /\ Bounded(MaxMovements)
    \/ DeleteVariant
    \/ ApplyBegin(1, OnePdfSku, UnknownSkus, 1 .. 1, MaxLines, {FALSE})
    \/ ApplyMove(1) /\ Bounded(MaxMovements)
    \/ ApplyReport(1)

SpecBestEffort == Init /\ [][NextBestEffort]_vars

\* Product types with their base and cost, and the variants created under
\* them.
NextProducts ==
    \/ UpsertProductType(Categories, SkuBases, CostInputs) /\ Bounded(0)
    \/ CreateVariant(Categories, {NULL, <<>>}, {<<>>}, {NoCost}) /\ Bounded(0)
    \/ UpdateCustoUnitario
    \/ DeleteVariant

SpecProducts == Init /\ [][NextProducts]_vars

\* The registry of mappings: the page "Mapeamento de SKUs" and the upsert of
\* a "Baixa por PDF" run, over two variants.
NextMapping ==
    \/ AllIdle /\ CreateVariant(OneCategory, {NULL}, SkuOverrides, {NoCost}) /\ Bounded(0)
    \/ AllIdle /\ DeleteVariant
    \/ AllIdle /\ AddMapping(PdfSkus) /\ Bounded(0)
    \/ AllIdle /\ DeleteMapping
    \/ ApplyBegin(1, PdfSkus, {}, 1 .. 1, 1, {TRUE})
    \/ ApplyMove(1) /\ Bounded(0)
    \/ ApplyMap(1) /\ Bounded(0)
    \/ ApplyReport(1)

SpecMapping == Init /\ [][NextMapping]_vars

\* Resolution of document identifiers against the registry and the ledger.
NextResolve ==
    \/ CreateVariant(OneCategory, {NULL}, SkuOverrides, {NoCost}) /\ Bounded(0)
    \/ DeleteVariant
    \/ AddMapping(ResolveSkus) /\ Bounded(0)
    \/ DeleteMapping
    \/ ResolveSku(ResolveSkus)

SpecResolve == Init /\ [][NextResolve]_vars

\* Stock and costs: variants with and without a cost of their own, the cost
\* of the product, entries and withdrawals, and the page of the stock value.
NextValue ==
    \/ CreateVariant(OneCategory, {NULL}, SkuOverrides, CostInputs) /\ Bounded(MaxMovements)
    \/ UpdateCustoUnitario
    \/ RecordMovement({0 - 1, 1, 2}, {"ajuste"}) /\ Bounded(MaxMovements)
    \/ ValorDoEstoque

SpecValue == Init /\ [][NextValue]_vars

\* Extraction of the facts of an uploaded document, with or without a
\* persisted mapping for its identifiers.
NextExtract ==
    \/ CreateVariant(OneCategory, {NULL}, {<<>>}, {NoCost}) /\ Bounded(0)
    \/ AddMapping(DocSkus) /\ Bounded(0)
    \/ ProcessarPdf(1, Docs)

SpecExtract == Init /\ [][NextExtract]_vars

\* Extraction of the facts of an uploaded document from the text of its
\* pages, with or without a persisted mapping for its identifiers.
NextParse ==
    \/ CreateVariant(OneCategory, {NULL}, {<<>>}, {NoCost}) /\ Bounded(0)
    \/ AddMapping(DocSkus) /\ Bounded(0)
    \/ UploadPdf(1, RawDocs)

SpecParse == Init /\ [][NextParse]_vars

\* The page "Mapeamento de SKUs" with any text typed as the identifier of the
\* document, the registry holding one entry at a time.
NextSanitize ==
    \/ CreateVariant(OneCategory, {NULL}, {<<>>}, {NoCost}) /\ Bounded(0)
    \/ AddMapping(SanitizeInputs) /\ sku_mapping = {}
    \/ DeleteMapping

SpecSanitize == Init /\ [][NextSanitize]_vars

\* Every operation that writes to the ledger, over a ledger that has
\* movements: the catalog handlers, the mapping page, record_movement and
\* one run of "Aplicar baixas" that saves its mapping.
NextAppend ==
    \/ AllIdle /\ UpsertProductType(OneCategory, {<<"B">>}, {NoCost}) /\ Bounded(MaxMovements)
    \/ AllIdle /\ CreateVariant(OneCategory, {NULL}, SkuOverrides, {NoCost})
               /\ Bounded(MaxMovements)
    \/ AllIdle /\ UpdateVariant(OneCategory, {NULL}, {NoCost})
    \/ AllIdle /\ DeleteVariant
    \/ AllIdle /\ UpdateSkuBaseBulk(OneCategory)
    \/ AllIdle /\ RecordMovement({1}, {"entrada"}) /\ Bounded(MaxMovements)
    \/ AllIdle /\ AddMapping(OnePdfSku) /\ Bounded(MaxMovements)
    \/ ApplyBegin(1, OnePdfSku, {}, 1 .. 1, 1, {TRUE})
    \/ ApplyMove(1) /\ Bounded(MaxMovements)
    \/ ApplyMap(1) /\ Bounded(MaxMovements)
    \/ ApplyReport(1)

SpecAppend == Init /\ [][NextAppend]_vars

\* The page "Baixa por PDF" from the upload to the end of the run: a file is
\* read, and the reviewed rows are applied when the button is pressed.
NextUpload ==
    \/ AllIdle /\ CreateVariant(OneCategory, {NULL}, {<<>>}, {NoCost}) /\ Bounded(MaxMovements)
    \/ AllIdle /\ MovimentarEstoque(1 .. MaxQty, {"entrada"}) /\ Bounded(1)
    \/ AllIdle /\ AddMapping(DocSkus) /\ Bounded(MaxMovements)
    \/ UploadPdf(1, UploadDocs)
    \/ ApplyBegin(1, DocSkus, {}, 1 .. 1, 1, {FALSE})
    \/ ApplyMove(1) /\ Bounded(MaxMovements)
    \/ ApplyReport(1)

SpecUpload == Init /\ [][NextUpload]_vars

\* ------------------------------------------------------------------------
\* Properties
\* ------------------------------------------------------------------------
MovementsOf(variant_id) == {m \in movements : m.variant_id = variant_id}

RECURSIVE SumOfQuantities(_)
SumOfQuantities(ms) ==
    IF ms = {} THEN 0
    ELSE LET m == CHOOSE x \in ms : TRUE IN m.qty + SumOfQuantities(ms \ {m})

\* C1: in every reachable state the stock the pages report for a variant
\* (looked up by its SKU in stock_df, and in the snapshot map_estoque) is the
\* sum of the quantities of exactly the movements that carry its variant id,
\* and 0 when it has none.
C1_StockIsSumOfMovements ==
    \A v \in variants :
        /\ estoque_of_sku(products, variants, movements, v.sku)
               = SumOfQuantities(MovementsOf(v.id))
        /\ map_estoque_of(products, variants, movements)[v.sku]
               = SumOfQuantities(MovementsOf(v.id))

C1_Witness ==
    \E v, w \in variants :
        /\ v.id # w.id
        /\ Cardinality(MovementsOf(v.id)) = 2
        /\ MovementsOf(w.id) = {}
        /\ estoque_of_sku(products, variants, movements, v.sku) = 2
        /\ estoque_of_sku(products, variants, movements, w.sku) = 0

\* C2: every "venda_pdf" movement a batch writes deducts at most the stock
\* the variant has in the ledger immediately before the movement is written,
\* also when several rows of the batch name the same SKU.
C2_DeductionWithinStock ==
    [][\A m \in movements' \ movements :
           m.reason = "venda_pdf"
               => 0 - m.qty <= SumOfQuantities(MovementsOf(m.variant_id))]_vars

\* C3: no movement of the ledger has quantity 0, whichever page wrote it.
C3_NoZeroMovement == \A m \in movements : m.qty # 0

\* C4: record_movement on an existing SKU with quantity 0 fails with
\* InvalidQuantity and leaves the movement log as it was.
C4_ZeroQuantityRejected ==
    [][(last'.op = "record_movement" /\ last'.sku \in Skus /\ last'.qty = 0)
           => (~last'.ok /\ last'.err = "InvalidQuantity" /\ movements' = movements)]_vars

\* C5: record_movement on a SKU of no variant fails with UnknownSku and
\* leaves the four tables unchanged; on an existing SKU with a non-zero
\* quantity it appends exactly one movement, with that variant's id, the
\* quantity and the reason, and changes nothing else.
C5_RecordMovementOutcome ==
    [][last'.op = "record_movement" =>
           IF last'.sku \notin Skus
           THEN ~last'.ok /\ last'.err = "UnknownSku" /\ UNCHANGED tables
           ELSE last'.qty # 0 =>
                  /\ last'.ok
                  /\ UNCHANGED <<products, variants, sku_mapping>>
                  /\ movements \subseteq movements'
                  /\ Cardinality(movements' \ movements) = 1
                  /\ \A m \in movements' \ movements :
                         /\ \E v \in variants : v.sku = last'.sku /\ m.variant_id = v.id
                         /\ m.qty = last'.qty
                         /\ m.reason = last'.reason]_vars

\* an unknown SKU has been refused on a ledger that holds a movement
\* recorded earlier for a variant
C5_Witness ==
    /\ last.op = "record_movement"
    /\ last.err = "UnknownSku"
    /\ \E m \in movements, v \in variants : m.variant_id = v.id /\ m.qty # 0

\* the shortfall of the rows 1 .. n of a run: max(0, requested - stock) over
\* the rows whose SKU is a SKU of the ledger, the stock being the one the
\* run read
RECURSIVE ShortfallOfRows(_, _)
ShortfallOfRows(se, n) ==
    IF n = 0 THEN 0
    ELSE LET r == se.edited[n]
             key == sanitize_sku(r.sku)
         IN  ShortfallOfRows(se, n - 1)
             + (IF key \in DOMAIN se.sku_san_to_orig
                THEN Max2(0, r.quantidade_corrigida
                             - (IF se.sku_san_to_orig[key] \in DOMAIN se.map_estoque
                                THEN se.map_estoque[se.sku_san_to_orig[key]] ELSE 0))
                ELSE 0)

\* C6: the total shortfall a run reports is the sum, over its rows with a
\* known SKU, of max(0, requested - stock), the rows with stock 0 or less
\* (for which no movement is recorded) included.
C6_ReportedShortfall ==
    \A s \in Sessions :
        sess[s].pc = "report"
            => sess[s].total_faltou_vender = ShortfallOfRows(sess[s], Len(sess[s].edited))

\* the stock the run of a session read for the SKU when it started
SnapshotStock(se, sku) ==
    IF sku \in DOMAIN se.map_estoque THEN se.map_estoque[sku] ELSE 0

\* C7: the deduction a session writes is the requested quantity clamped to
\* the stock that session read when its run started, whatever the other
\* session has written since: read and write are not one serialized step.
C7_DeductionFromSnapshot ==
    [][\A s \in Sessions :
           LET se == sess[s]
               r == se.edited[se.i]
               key == sanitize_sku(r.sku)
               sku_original == se.sku_san_to_orig[key]
               expected == Min2(r.quantidade_corrigida, SnapshotStock(se, sku_original))
           IN  (se.pc = "move" /\ sess'[s] # se /\ key \in DOMAIN se.sku_san_to_orig)
                   => IF expected > 0
                      THEN \E m \in movements' \ movements :
                               /\ movements' = movements \cup {m}
                               /\ m.qty = 0 - expected
                               /\ m.reason = "venda_pdf"
                               /\ \E v \in variants :
                                      v.sku = sku_original /\ v.id = m.variant_id
                      ELSE movements' = movements]_vars

\* the lost update: two runs that read the same positive stock have both
\* written their deduction, and the variant's stock is negative
C7_Witness ==
    \E v \in variants :
        /\ SumOfQuantities(MovementsOf(v.id)) < 0
        /\ \A s \in Sessions :
               /\ sess[s].pc = "report"
               /\ sess[s].ok_count = 1
               /\ SnapshotStock(sess[s], v.sku) > 0
        /\ sess[1].map_estoque = sess[2].map_estoque

\* C8: a create_variant that fails with DuplicateSku leaves the whole ledger
\* as it was: no product row created, no sku_base changed.
C8_CreateVariantAllOrNothing ==
    [][(last'.op = "create_variant" /\ last'.err = "DuplicateSku")
           => UNCHANGED tables]_vars

\* C9: no two variants have the same SKU, after any create, update, delete or
\* bulk regeneration; and a create_variant whose SKU is already a variant's
\* fails with DuplicateSku and inserts no variant.
C9_SkuUnique ==
    [][/\ \A v, w \in variants' : v.sku = w.sku => v = w
       /\ (last'.op = "create_variant" /\ last'.sku \in Skus)
              => (~last'.ok /\ last'.err = "DuplicateSku" /\ variants' = variants)]_vars

\* a create has been refused as a duplicate on a ledger of two variants
C9_Witness ==
    /\ last.op = "create_variant"
    /\ last.err = "DuplicateSku"
    /\ Cardinality(variants) = 2
    /\ last.sku \in Skus

\* C10: no two products have the same (stripped category, stripped subtype).
C10_ProductPairUnique ==
    \A p, q \in products :
        (Strip(p.category) = Strip(q.category) /\ Strip(p.subtype) = Strip(q.subtype))
            => p = q

\* the type typed as " mo" is stored as "mo", next to another
\* type, and an upsert has just returned
C10_Witness ==
    /\ last.op = "get_or_create_product"
    /\ Cardinality(products) = 2
    /\ \E p \in products : p.category = <<"m", "o">> /\ p.sku_base = <<"B">>
    /\ \E v \in variants : \E p \in products : p.id = v.product_id /\ p.category = <<"m", "o">>

\* C11: a row that fails (its SKU is no SKU of the ledger, or record_movement
\* raises) adds one to the count of errors, the run goes on to the next row
\* and ends only after the last one, and the step removes no movement.
C11_BestEffort ==
    [][\A s \in Sessions :
           (sess[s].pc = "move" /\ sess'[s] # sess[s])
               => /\ movements \subseteq movements'
                  /\ ~last'.ok => /\ movements' = movements
                                  /\ last'.err = "Unmapped"
                                         => sess'[s].faltando = sess[s].faltando + 1
                                  /\ last'.err # "Unmapped"
                                         => sess'[s].erros = sess[s].erros + 1
                  /\ sess'[s].i = sess[s].i + 1
                  /\ sess'[s].ok_count >= sess[s].ok_count
                  /\ sess'[s].pc = IF sess[s].i < Len(sess[s].edited)
                                   THEN "move" ELSE "report"]_vars

\* a run of two rows has ended: record_movement raised for the first row,
\* whose variant was removed after the run had read it, and the second row
\* recorded its movement
C11_Witness ==
    /\ sess[1].pc = "report"
    /\ Len(sess[1].edited) = 2
    /\ sess[1].edited[1].sku \in DOMAIN sess[1].map_estoque
    /\ sess[1].map_estoque[sess[1].edited[1].sku] > 0
    /\ sess[1].erros = 1
    /\ sess[1].ok_count = 1
    /\ last.op = "baixa_linha" /\ last.ok /\ last.qty < 0
    /\ \E m \in movements : m.reason = "venda_pdf"

\* C12: a row whose ledger SKU is blank is counted as unmapped and skipped:
\* the step changes no table (no movement, no mapping entry), adds one to
\* faltando and to no other count, and goes to the next row without the
\* mapping upsert.
C12_BlankSkuSkipped ==
    [][\A s \in Sessions :
           LET se == sess[s]
           IN  (se.pc = "move" /\ sess'[s] # se /\ RemoveSpaces(se.edited[se.i].sku) = <<>>)
                   => /\ UNCHANGED tables
                      /\ sess'[s].faltando = se.faltando + 1
                      /\ sess'[s].ok_count = se.ok_count
                      /\ sess'[s].mapeados = se.mapeados
                      /\ sess'[s].erros = se.erros
                      /\ sess'[s].total_faltou_vender = se.total_faltou_vender
                      /\ sess'[s].pc # "map"
                      /\ sess'[s].i = se.i + 1]_vars

\* a run that saves mappings has ended on a ledger with a variant in stock:
\* its first row had a blank SKU and a document identifier, its second row
\* an unknown SKU; no sale was recorded and no mapping entry written
C12_Witness ==
    /\ sess[1].pc = "report"
    /\ sess[1].grava_map
    /\ Len(sess[1].edited) = 2
    /\ sess[1].edited[1].sku = <<" ">>
    /\ sanitize_sku(sess[1].edited[1].sku_pdf) # <<>>
    /\ sess[1].faltando = 1
    /\ sess[1].erros = 1
    /\ \E v \in variants : SumOfQuantities(MovementsOf(v.id)) > 0
    /\ \A m \in movements : m.reason # "venda_pdf"
    /\ sku_mapping = {}

\* C13: delete_variant on an existing SKU removes that variant, the movements
\* of that variant and the mapping entries that point to that SKU, removes
\* the parent product exactly when no other variant belongs to it, and leaves
\* every other row as it was; on an unknown SKU it fails and changes nothing.
C13_DeleteVariantEffect ==
    [][last'.op = "delete_variant" =>
           IF last'.sku \notin Skus
           THEN ~last'.ok /\ UNCHANGED tables
           ELSE \E v \in variants :
                    /\ v.sku = last'.sku
                    /\ last'.ok
                    /\ variants' = variants \ {v}
                    /\ movements' = movements \ MovementsOf(v.id)
                    /\ sku_mapping' = sku_mapping
                           \ {m \in sku_mapping : m.sku_estoque = v.sku}
                    /\ products' =
                           IF \E w \in variants : w # v /\ w.product_id = v.product_id
                           THEN products
                           ELSE products \ {p \in products : p.id = v.product_id}]_vars

\* a variant has been removed with its movement (row 1 of the log is gone);
\* the other variant of the product, its movement and the mapping entry that
\* points to it are still there
C13_Witness ==
    /\ last.op = "delete_variant"
    /\ last.ok
    /\ \E v \in variants :
           /\ \E m \in movements : m.variant_id = v.id /\ m.id = 2
           /\ \E m \in sku_mapping : m.sku_estoque = v.sku
           /\ \E p \in products : p.id = v.product_id
    /\ \A m \in movements : m.id # 1

\* C14: update_variant to a new SKU that differs from the old one and is the
\* SKU of another variant fails with DuplicateSku, whatever the other fields
\* are, and the four tables stay as they were.
C14_UpdateToUsedSkuRefused ==
    [][/\ \A old_sku \in Skus, new_sku \in Skus, category \in Categories,
             subtype \in Subtypes, color \in Colors, size \in Sizes,
             sku_base \in SkuBases \ {<<>>} :
              old_sku # new_sku =>
              LET r == update_variant(products, variants, sku_mapping, old_sku, new_sku,
                                      category, subtype, color, size, sku_base, NoCost)
              IN  /\ ~r.ok
                  /\ r.err = "DuplicateSku"
                  /\ r.products = products
                  /\ r.variants = variants
       /\ (last'.op = "update_variant" /\ last'.err = "DuplicateSku")
              => (UNCHANGED tables /\ last'.sku \in Skus)]_vars

\* an update to the SKU of the other variant has been refused
C14_Witness ==
    /\ last.op = "update_variant"
    /\ last.err = "DuplicateSku"
    /\ Cardinality(variants) = 2
    /\ Cardinality(products) = 1
    /\ \E v \in variants : v.sku = last.sku

\* C15: get_or_create_product on an existing product writes custo_unitario
\* only when a cost is given and sku_base only when a base is given (an
\* empty base clears it); with neither given the row is unchanged; the id of
\* the product, the other products and the variants are unchanged.
C15_UpsertExistingProduct ==
    [][/\ \A p \in products, sku_base \in SkuBases, custo \in CostInputs :
              LET g == get_or_create_product(products, p.category, p.subtype,
                                             sku_base, custo)
              IN  /\ g.id = p.id
                  /\ \E q \in g.products :
                         /\ g.products \ {q} = products \ {p}
                         /\ q.id = p.id
                         /\ q.category = p.category
                         /\ q.subtype = p.subtype
                         /\ q.custo_unitario =
                                IF custo = NoCost THEN p.custo_unitario ELSE custo
                         /\ q.sku_base =
                                IF sku_base = NULL THEN p.sku_base
                                ELSE IF sku_base = <<>> THEN NULL ELSE sku_base
                         /\ (sku_base = NULL /\ custo = NoCost) => q = p
       /\ last'.op = "get_or_create_product"
              => UNCHANGED <<variants, movements, sku_mapping>>]_vars

\* an upsert has returned on a product type that has a variant, a base and a
\* cost other than the default
C15_Witness ==
    /\ last.op = "get_or_create_product"
    /\ \E p \in products :
           /\ p.sku_base = <<"B">>
           /\ p.custo_unitario = <<2>>
           /\ \E v \in variants : v.product_id = p.id
    /\ \E p \in products : p.sku_base = NULL /\ p.custo_unitario = <<2>>

\* C16: create_variant with no base given (absent or empty) and no override,
\* the only way the page creates variants in SpecProducts, for a product that
\* has a stored sku_base: the stored base is left as it was, and the SKU of
\* the new variant is built from it.
C16_InheritedSkuBase ==
    [][last'.op = "create_variant" =>
           /\ \A p \in products : \A q \in products' :
                  q.id = p.id => q.sku_base = p.sku_base
           /\ \A v \in variants' \ variants : \A p \in products :
                  (p.id = v.product_id /\ Truthy(p.sku_base))
                      => v.sku = sanitize_sku(generate_sku(p.sku_base, v.color, v.size))]_vars

\* C17: the upsert of a mapping is last-write-wins and idempotent per
\* sanitized document identifier: after it the registry has exactly one
\* entry for the identifier, with the ledger SKU of this upsert, the entries
\* of the other identifiers are as before, and the same upsert made again
\* changes nothing; no step leaves two entries for one identifier.
C17_UpsertLastWriteWins ==
    [][/\ \A sku_pdf \in PdfSkus, sku_estoque \in Skus :
              LET key == sanitize_sku(sku_pdf)
                  r == upsert_mapping(variants, sku_mapping, key, sku_estoque)
                  again == upsert_mapping(variants, r.sku_mapping, key, sku_estoque)
              IN  /\ r.ok
                  /\ \E m \in r.sku_mapping :
                         /\ m.sku_estoque = sku_estoque
                         /\ {x \in r.sku_mapping : x.sku_pdf = key} = {m}
                  /\ {x \in r.sku_mapping : x.sku_pdf # key}
                         = {x \in sku_mapping : x.sku_pdf # key}
                  /\ again.ok
                  /\ again.sku_mapping = r.sku_mapping
       /\ \A m, n \in sku_mapping' : m.sku_pdf = n.sku_pdf => m = n
       /\ (last'.op \in {"add_mapping", "baixa_mapeamento"} /\ last'.ok)
              => \E m \in sku_mapping' :
                     /\ m.sku_estoque = last'.sku
                     /\ \A x \in sku_mapping' \ {m} : x \in sku_mapping
                     /\ \A x \in sku_mapping : x.sku_pdf # m.sku_pdf => x \in sku_mapping']_vars

\* the registry has an entry per identifier, for different variants, and the
\* upsert that has just returned wrote the older entry again
C17_Witness ==
    /\ last.op = "add_mapping"
    /\ last.ok
    /\ \E m, n \in sku_mapping :
           /\ m.id = 1 /\ n.id = 2
           /\ m.sku_estoque # n.sku_estoque
           /\ m.sku_estoque = last.sku

\* C18: get_sku_mapping returns the ledger SKU of the persisted entry of the
\* sanitized identifier whenever there is one, whatever ledger SKU has the
\* identifier's normalized key; with no entry it returns a ledger SKU whose
\* normalized key is the identifier's, and nothing when there is none.
C18_ResolveOrder ==
    [][/\ \A sku_pdf \in ResolveSkus :
              LET entries == {m \in sku_mapping : m.sku_pdf = sanitize_sku(sku_pdf)}
                  matching == {v \in variants :
                                  normalize_key(v.sku) = normalize_key(sku_pdf)}
                  r == get_sku_mapping(products, variants, sku_mapping, sku_pdf)
              IN  IF entries # {} THEN \E m \in entries : r = m.sku_estoque
                  ELSE IF matching # {} THEN \E v \in matching : r = v.sku
                  ELSE r = NULL
       /\ last'.op = "get_sku_mapping" => UNCHANGED tables]_vars

\* the identifier "k1" has been resolved to the SKU of its entry while the
\* ledger has the SKU K-1, of the same normalized key
C18_Witness ==
    /\ last.op = "get_sku_mapping"
    /\ last.sku = <<"C", "A", "-", "X", "-", "A", "Z", "-", "M">>
    /\ \E v \in variants : v.sku = <<"K", "-", "1">>
    /\ \E m \in sku_mapping : m.sku_pdf = <<"K", "1">> /\ m.sku_estoque = last.sku
    /\ \A m \in sku_mapping : m.sku_pdf = <<"K", "1">>

\* the value a variant adds to the total: stock times the cost of the variant
\* if it has one, else of its product, for a stock above 0, else nothing
RECURSIVE ValueOfVariants(_)
ValueOfVariants(vs) ==
    IF vs = {} THEN 0
    ELSE LET v == CHOOSE x \in vs : TRUE
             stock == SumOfQuantities(MovementsOf(v.id))
             p == CHOOSE x \in products : x.id = v.product_id
             cost == IF v.custo_unitario # NoCost THEN v.custo_unitario[1]
                     ELSE IF p.custo_unitario # NoCost THEN p.custo_unitario[1] ELSE 0
         IN  (IF stock > 0 THEN stock * cost ELSE 0) + ValueOfVariants(vs \ {v})

\* C19: the total stock value is the sum, over the variants with stock above
\* 0, of stock times effective cost; a variant with negative stock adds 0,
\* so the total is the same with those variants left out and is never
\* negative.
C19_StockValue ==
    /\ valor_total(products, variants, movements) = ValueOfVariants(variants)
    /\ valor_total(products, variants, movements)
           = ValueOfVariants({v \in variants : SumOfQuantities(MovementsOf(v.id)) >= 0})
    /\ valor_total(products, variants, movements) >= 0
    /\ last.op = "valor_do_estoque"
           => last.qty = ValueOfVariants(variants)

\* the page shows 4 for a ledger with one variant of stock 2 and a cost of
\* its own over a product of another cost, and one variant of negative stock
C19_Witness ==
    /\ last.op = "valor_do_estoque"
    /\ last.qty = 4
    /\ \E v, w \in variants :
           /\ SumOfQuantities(MovementsOf(v.id)) = 2
           /\ v.custo_unitario = <<2>>
           /\ SumOfQuantities(MovementsOf(w.id)) < 0
           /\ custo_efetivo(products, w) > 0

\* the (normalized identifier, quantity) pairs the lines of a document
\* yield, one per line occurrence, in the order of the document; pending is
\* the identifier still waiting for its quantity
RECURSIVE PairsOfMatches(_, _)
PairsOfMatches(matches, pending) ==
    IF matches = <<>> THEN [pairs |-> <<>>, pending |-> pending]
    ELSE LET m == Head(matches)
             rest == PairsOfMatches(Tail(matches),
                                    IF m.qty_val = NoQty THEN m.token_out ELSE NULL)
         IN  [pairs |-> (IF m.qty_val = NoQty THEN <<>>
                         ELSE <<<<norm(m.token_out), m.qty_val[1]>>>>) \o rest.pairs,
              pending |-> rest.pending]

RECURSIVE PairsOfDocument(_, _)
PairsOfDocument(doc, pending) ==
    IF doc = <<>> THEN <<>>
    ELSE LET found == PairsOfMatches(Head(doc).matches, pending)
             closes == found.pending # NULL /\ Head(doc).tail # NoQty
         IN  found.pairs
             \o (IF closes THEN <<<<norm(found.pending), Head(doc).tail[1]>>>> ELSE <<>>)
             \o PairsOfDocument(Tail(doc), IF closes THEN NULL ELSE found.pending)

FirstIndex(seq, x) == CHOOSE i \in 1 .. Len(seq) : seq[i] = x /\ \A j \in 1 .. (i - 1) : seq[j] # x

\* C20: the facts extracted from a document hold each (normalized
\* identifier, quantity) pair at most once, however many lines yield it;
\* every pair a line yields is there, and the facts are in the order in
\* which their pairs first occur in the document.
C20_FactsOncePerPair ==
    \A s \in Sessions :
        LET out == sess[s].movimentos
            pair(i) == <<out[i].sku_pdf, out[i].quantidade>>
            yielded == PairsOfDocument(sess[s].doc, NULL)
        IN  /\ \A i, j \in 1 .. Len(out) : pair(i) = pair(j) => i = j
            /\ {pair(i) : i \in 1 .. Len(out)} = {yielded[k] : k \in 1 .. Len(yielded)}
            /\ \A i, j \in 1 .. Len(out) :
                   i < j => FirstIndex(yielded, pair(i)) < FirstIndex(yielded, pair(j))

\* a document of three lines: the identifier with quantity 2 in lower case,
\* another identifier, and the first pair again in upper case; two facts
\* come out, the first pair first
C20_Witness ==
    /\ last.op = "processar_pdf_vendas"
    /\ Len(sess[1].doc) = 3
    /\ Len(PairsOfDocument(sess[1].doc, NULL)) = 3
    /\ PairsOfDocument(sess[1].doc, NULL)[1] = PairsOfDocument(sess[1].doc, NULL)[3]
    /\ sess[1].doc[1] # sess[1].doc[3]
    /\ Len(sess[1].movimentos) = 2
    /\ sess[1].movimentos[1].sku_pdf = <<"A", "B", "-", "X", "-", "M">>
    /\ sess[1].movimentos[1].quantidade = 2
    /\ sess[1].movimentos[2].sku_pdf = <<"C", "D", "-", "Y", "-", "P">>

\* a line that is one token whose size is a number of three digits
IsThreeDigitToken(ln) ==
    /\ Len(ln) > 4
    /\ ln[Len(ln) - 3] = "-"
    /\ \A k \in 0 .. 2 : ln[Len(ln) - k] \in Digits
    /\ re_fullmatch(TOKEN, ln)

\* C21: a document of one line that is a token with a size of three digits
\* d1d2d3 and no quantity attached yields one fact: the identifier with size
\* d1d2 and the quantity d3, whether d1d2 is a recognized size or not.
C21_ThreeDigitSize ==
    \A s \in Sessions :
        (Len(sess[s].raw) = 1 /\ IsThreeDigitToken(sess[s].raw[1]))
            => LET ln == sess[s].raw[1]
                   out == sess[s].movimentos
               IN  /\ Len(out) = 1
                   /\ out[1].sku_pdf = SubSeq(ln, 1, Len(ln) - 1)
                   /\ out[1].quantidade = ToInt(<<ln[Len(ln)]>>)

\* the texts of a sequence, one after the other
RECURSIVE Joined(_)
Joined(texts) == IF texts = <<>> THEN <<>> ELSE Head(texts) \o Joined(Tail(texts))

\* C22: the merged lines are the kept lines, joined while the text ends in
\* "-": nothing is lost or reordered, and only the last merged line can end
\* in "-".  The merged text is the unbroken identifier: the lines
\* CAM-LISA-AZU- and L-M12 yield the one fact CAM-LISA-AZUL-M, quantity 12.
C22_WrapMerge ==
    \A s \in Sessions :
        LET kept == kept_of(lines_of(sess[s].raw))
            merged == merged_from(kept, 1)
            out == sess[s].movimentos
        IN  /\ Joined(merged) = Joined(kept)
            /\ \A i \in 1 .. (Len(merged) - 1) : ~endswith_dash(merged[i])
            /\ sess[s].raw = <<<<"C","A","M","-","L","I","S","A","-","A","Z","U","-">>,
                               <<"L","-","M","1","2">>>>
                   => /\ Len(out) = 1
                      /\ out[1].sku_pdf = <<"C","A","M","-","L","I","S","A","-",
                                            "A","Z","U","L","-","M">>
                      /\ out[1].quantidade = 12

\* the (normalized identifier, quantity) pairs a line yields by itself: its
\* matches with a quantity, and its last match when that has none and the
\* rest of the line is a quantity
PairsOfLine(line) ==
    LET found == PairsOfMatches(line.matches, NULL)
        own == IF found.pending # NULL /\ line.tail # NoQty
               THEN found.pairs \o <<<<norm(found.pending), line.tail[1]>>>>
               ELSE found.pairs
    IN  {own[k] : k \in 1 .. Len(own)}

\* C23: a token without a quantity is pending for its own line only; when
\* the rest of its line is no quantity it is discarded, so every fact has
\* its identifier and its quantity from one and the same line.
C23_PendingOwnLineOnly ==
    \A s \in Sessions :
        \A i \in 1 .. Len(sess[s].movimentos) :
            \E k \in 1 .. Len(sess[s].doc) :
                <<sess[s].movimentos[i].sku_pdf, sess[s].movimentos[i].quantidade>>
                    \in PairsOfLine(sess[s].doc[k])

\* the quantity the trailing-slash guard gives a match m of the line compact:
\* the quantity string is group 2, or the digits peeled from the size at the
\* end of the token; it counts in full unless the character right after it
\* is "/", and then its first digit counts
GuardedQty(compact, m) ==
    LET attached == m.end # m.end1
        sp == size_split(SubSeq(compact, m.start + 1, m.end1),
                         IF attached THEN SubSeq(compact, m.end1 + 1, m.end) ELSE NULL)
        after == IF attached THEN m.end ELSE m.end1
    IN  IF sp.qty_str = NULL \/ sp.qty_str = <<>> THEN NoQty
        ELSE IF after < Len(compact) /\ compact[after + 1] = "/"
             THEN <<ToInt(<<sp.qty_str[1]>>)>>
        ELSE <<ToInt(sp.qty_str)>>

\* C24: the quantity of every match of every line of a document is the one
\* the trailing-slash guard gives: the first digit of the quantity string
\* when the character right after that string is "/", for a quantity
\* attached to the token and for one peeled from a numeric size alike, and
\* whatever the other characters of the line are.
C24_TrailingSlashGuard ==
    \A s \in Sessions :
        LET merged == merged_from(kept_of(lines_of(sess[s].raw)), 1)
        IN  \A k \in 1 .. Len(merged) :
                LET compact == compact_of(merged[k])
                    ms == finditer(compact, 0)
                IN  \A j \in 1 .. Len(ms) :
                        sess[s].doc[k].matches[j].qty_val = GuardedQty(compact, ms[j])

\* C25: the extraction fails, with the flag false, the empty list and the
\* message of "no items found", exactly when no line of the document has
\* yielded a pair; a document of nothing but the heading LISTA DE RESUMO
\* fails so, and a document that yields a fact succeeds with its facts.
C25_NoItemsFound ==
    [][last'.op = "processar_pdf_vendas" =>
           \E s \in Sessions :
               /\ sess[s].raw = <<>> /\ sess'[s].raw # <<>>
               /\ LET none == PairsOfDocument(sess'[s].doc, NULL) = <<>>
                      failed == /\ ~last'.ok
                                /\ last'.err = "Nenhum item encontrado no PDF."
                                /\ sess'[s].movimentos = <<>>
                      heading == <<"L","I","S","T","A"," ","D","E"," ","R","E","S","U","M","O">>
                  IN  /\ none <=> failed
                      /\ ~none <=> (last'.ok /\ last'.err = "" /\ sess'[s].movimentos # <<>>)
                      /\ (\A i \in 1 .. Len(sess'[s].raw) : sess'[s].raw[i] = heading)
                             => failed]_vars

\* the document LISTA DE RESUMO alone has been uploaded and the extraction
\* has failed with the empty list
C25_Witness ==
    /\ last.op = "processar_pdf_vendas"
    /\ ~last.ok
    /\ last.err = "Nenhum item encontrado no PDF."
    /\ sess[1].raw = <<<<"L","I","S","T","A"," ","D","E"," ","R","E","S","U","M","O">>>>
    /\ sess[1].doc = <<>>
    /\ sess[1].movimentos = <<>>

\* C26: sanitize_sku is idempotent: for every text that can be typed, and
\* for no text at all, sanitizing the sanitized text gives the sanitized
\* text; so every identifier the registry holds is its own sanitized form.
C26_SanitizeIdempotent ==
    /\ \A s \in SanitizeInputs \cup {<<>>, NULL} :
           sanitize_sku(sanitize_sku(s)) = sanitize_sku(s)
    /\ \A m \in sku_mapping : sanitize_sku(m.sku_pdf) = m.sku_pdf

\* an entry has been stored whose identifier is "B_~C": whichever text it
\* was typed as, that text had the accented letter in lower case or a
\* character the sanitizing removed, or was exactly the stored text
C26_Witness ==
    /\ last.op = "add_mapping"
    /\ \E m \in sku_mapping : m.sku_pdf = <<"B", "_", "~C">>
    /\ \E s \in SanitizeInputs : s # sanitize_sku(s) /\ sanitize_sku(s) = <<"B", "_", "~C">>

\* C27: the movement log is append-only: a step of any operation other than
\* delete_variant (record_movement, create_variant, update_variant, the
\* product upsert, the bulk regeneration, a mapping upsert, the rows of a
\* batch) leaves every movement in the log, with its variant, quantity,
\* reason and timestamp; the rowid of a new movement is of no earlier one.
C27_AppendOnly ==
    [][last'.op # "delete_variant" =>
           /\ movements \subseteq movements'
           /\ \A n \in movements' \ movements : \A m \in movements : n.id # m.id]_vars

\* a variant with a movement has been given another SKU by update_variant,
\* and a second movement has been written since: the first is still there
C27_Witness ==
    /\ last.op = "record_movement"
    /\ last.ok
    /\ \E v \in variants :
           /\ v.sku = <<"k", "-", "1">>
           /\ Cardinality(MovementsOf(v.id)) = 2
    /\ \E p \in products : p.sku_base = <<"B">>

\* C28: the step that reads an uploaded document leaves products, variants,
\* movements and mapping entries as they were, and a "venda_pdf" movement is
\* written only by a row of a run of "Aplicar baixas".
C28_ExtractionReadsOnly ==
    [][/\ (\E s \in Sessions : sess'[s].raw # sess[s].raw /\ sess'[s].raw # <<>>)
           => UNCHANGED tables
       /\ (\E m \in movements' \ movements : m.reason = "venda_pdf")
           => (last'.op = "baixa_linha" /\ \E s \in Sessions : sess[s].pc = "move")]_vars

\* a document has just been read whose fact is mapped to a variant in
\* stock, the registry holding the entry the extraction read: the ledger has
\* the entry movement and no sale
C28_Witness ==
    /\ last.op = "processar_pdf_vendas"
    /\ last.ok
    /\ Len(sess[1].movimentos) = 1
    /\ sess[1].movimentos[1].mapeado
    /\ sku_mapping # {}
    /\ \E v \in variants :
           /\ v.sku = sess[1].movimentos[1].sku
           /\ SumOfQuantities(MovementsOf(v.id)) > 0
    /\ \A m \in movements : m.reason # "venda_pdf"

\* C29: every movement written by the page "Movimentar Estoque" or by a run
\* of "Aplicar baixas" with reason venda or venda_pdf has a quantity below 0,
\* and every one with reason entrada a quantity above 0.
C29_SignFollowsReason ==
    [][(last'.op \in {"movimentar_estoque", "baixa_linha"})
           => \A m \in movements' \ movements :
                  /\ (m.reason \in {"venda", "venda_pdf"} => m.qty < 0)
                  /\ (m.reason = "entrada" => m.qty > 0)]_vars

\* C30: update_variant succeeds whenever the old SKU is in the catalogue and
\* the new SKU is not the SKU of another variant, mapping rows on the old SKU
\* or not; after a successful update the variant is found under the new SKU,
\* the ledger is as before, and every mapping row references the SKU of a
\* variant.
C30_RenameSucceeds ==
    [][/\ \A old_sku \in Skus, new_sku \in Skus \cup NewSkus, category \in OneCategory,
             subtype \in Subtypes, color \in Colors, size \in Sizes :
              (\A v \in variants : v.sku = new_sku => v.sku = old_sku) =>
              update_variant(products, variants, sku_mapping, old_sku, new_sku,
                             category, subtype, color, size, NULL, NoCost).ok
       /\ (last'.op = "update_variant" /\ last'.ok)
              => /\ \E v \in variants' : v.sku = last'.sku
                 /\ movements' = movements
                 /\ \A m \in sku_mapping' : \E v \in variants' : v.sku = m.sku_estoque]_vars

====
